---- MODULE Spec2Model ----
(***************************************************************************)
(* ECEN batch-costing ledger (src/components/ECENApp.jsx): the reporting   *)
(* engine calculateReports, the numeric normalisation parseNum, and the    *)
(* JSON export / import path of the application shell.                     *)
(*                                                                         *)
(* JavaScript numbers are modelled as exact rationals [n, d] in lowest     *)
(* terms (d > 0).  Every number the model feeds to the engine is a         *)
(* terminating decimal of small magnitude, for which IEEE-754 arithmetic   *)
(* (+, -, *, comparison) is exact, so the rational result is the result    *)
(* the code computes.  Strings are sequences of one-character strings.     *)
(***************************************************************************)
EXTENDS Integers, Sequences, FiniteSets, TLC

\* Bound of the model: the largest number of records (purchases + sales +
\* expenses + payments) in a snapshot.
MaxRecords == 3

(***************************************************************************)
(* Numbers                                                                 *)
(***************************************************************************)
Abs(x) == IF x < 0 THEN -x ELSE x

RECURSIVE GCD(_, _)
GCD(a, b) == IF b = 0 THEN a ELSE GCD(b, a % b)

\* The number n/d (d > 0) in lowest terms.
Rat(n, d) == LET g == GCD(Abs(n), d) IN [n |-> n \div g, d |-> d \div g]

Int2Num(i) == [n |-> i, d |-> 1]
Zero == Int2Num(0)

\* a + b, a - b, a * b, a > b and Math.max(a, b) on numbers.
Add(a, b) == Rat(a.n * b.d + b.n * a.d, a.d * b.d)
Sub(a, b) == Rat(a.n * b.d - b.n * a.d, a.d * b.d)
Mul(a, b) == Rat(a.n * b.n, a.d * b.d)
Gt(a, b) == a.n * b.d > b.n * a.d
MathMax(a, b) == IF Gt(b, a) THEN b ELSE a

RECURSIVE Pow10(_)
Pow10(k) == IF k = 0 THEN 1 ELSE 10 * Pow10(k - 1)

(***************************************************************************)
(* JavaScript values held in a record field: a number, a string, null or   *)
(* undefined (a field the record does not have).                           *)
(***************************************************************************)
Num(r) == [t |-> "number", num |-> r, str |-> <<>>]
Str(cs) == [t |-> "string", num |-> Zero, str |-> cs]
Null == [t |-> "null", num |-> Zero, str |-> <<>>]
Undefined == [t |-> "undefined", num |-> Zero, str |-> <<>>]

\* The result of Number(string): a finite number, NaN or an infinity.
Finite(r) == [kind |-> "finite", v |-> r]
NaN == [kind |-> "NaN", v |-> Zero]
Infinity == [kind |-> "Infinity", v |-> Zero]

DigitChars == <<"0", "1", "2", "3", "4", "5", "6", "7", "8", "9">>
IsDigit(c) == \E i \in 1..10 : DigitChars[i] = c
DigitVal(c) == (CHOOSE i \in 1..10 : DigitChars[i] = c) - 1

\* Decimal digits of a natural number, most significant first.
RECURSIVE NatToString(_)
NatToString(k) ==
  IF k < 10 THEN <<DigitChars[k + 1]>>
  ELSE NatToString(k \div 10) \o <<DigitChars[(k % 10) + 1]>>

\* Digits after the decimal point of rem/d (0 <= rem < d), by long division.
RECURSIVE FracToString(_, _, _)
FracToString(rem, d, fuel) ==
  IF rem = 0 \/ fuel = 0 THEN <<>>
  ELSE <<DigitChars[((rem * 10) \div d) + 1]>> \o FracToString((rem * 10) % d, d, fuel - 1)

\* Number::toString of a finite number (a terminating decimal).
NumberToString(r) ==
  LET a == Abs(r.n)
      body == NatToString(a \div r.d)
              \o (IF a % r.d = 0 THEN <<>> ELSE <<".">> \o FracToString(a % r.d, r.d, r.d))
  IN IF r.n < 0 THEN <<"-">> \o body ELSE body

\* String(v) for a value v.
StringOf(v) ==
  CASE v.t = "string" -> v.str
    [] v.t = "number" -> NumberToString(v.num)
    [] v.t = "null" -> <<"n", "u", "l", "l">>
    [] OTHER -> <<"u", "n", "d", "e", "f", "i", "n", "e", "d">>

\* s.replace(/,/g, "."): every comma becomes a period.
ReplaceCommas(cs) == [i \in 1..Len(cs) |-> IF cs[i] = "," THEN "." ELSE cs[i]]

\* Leading and trailing white space removed (StringToNumber ignores it).
RECURSIVE TrimLeft(_)
TrimLeft(cs) == IF cs # <<>> /\ Head(cs) = " " THEN TrimLeft(Tail(cs)) ELSE cs
RECURSIVE TrimRight(_)
TrimRight(cs) ==
  IF cs # <<>> /\ cs[Len(cs)] = " " THEN TrimRight(SubSeq(cs, 1, Len(cs) - 1)) ELSE cs
Trim(cs) == TrimRight(TrimLeft(cs))

\* The natural number written by a sequence of digits (0 for no digit).
RECURSIVE DigitsToNat(_)
DigitsToNat(cs) ==
  IF cs = <<>> THEN 0
  ELSE DigitsToNat(SubSeq(cs, 1, Len(cs) - 1)) * 10 + DigitVal(cs[Len(cs)])

\* An unsigned decimal literal: digits with at most one period and at least
\* one digit ("12", "1.5", ".5", "1.").
IsDecimalLiteral(cs) ==
  /\ \A i \in 1..Len(cs) : IsDigit(cs[i]) \/ cs[i] = "."
  /\ Cardinality({i \in 1..Len(cs) : cs[i] = "."}) <= 1
  /\ \E i \in 1..Len(cs) : IsDigit(cs[i])

DecimalValue(cs) ==
  LET dots == {i \in 1..Len(cs) : cs[i] = "."}
      dot == IF dots = {} THEN Len(cs) + 1 ELSE CHOOSE i \in dots : TRUE
      whole == SubSeq(cs, 1, dot - 1)
      frac == SubSeq(cs, dot + 1, Len(cs))
  IN Rat(DigitsToNat(whole) * Pow10(Len(frac)) + DigitsToNat(frac), Pow10(Len(frac)))

\* Number(string): the empty (or blank) string is 0; a signed decimal
\* literal is its value; "Infinity" is an infinity; anything else is NaN.
StringToNumber(cs) ==
  LET t == Trim(cs)
      signed == t # <<>> /\ Head(t) \in {"+", "-"}
      u == IF signed THEN Tail(t) ELSE t
      neg == signed /\ Head(t) = "-"
  IN IF t = <<>> THEN Finite(Zero)
     ELSE IF u = <<"I", "n", "f", "i", "n", "i", "t", "y">> THEN Infinity
     ELSE IF IsDecimalLiteral(u)
          THEN Finite(IF neg THEN Sub(Zero, DecimalValue(u)) ELSE DecimalValue(u))
     ELSE NaN

\* Number.isFinite(n)
IsFinite(n) == n.kind = "finite"

\* Mutant of parseNumValue: the result of Number is returned unchecked.
parseNumValue_Unchecked(v) ==
  LET s == IF v.t \in {"null", "undefined"} THEN <<>> ELSE StringOf(v)
  IN StringToNumber(ReplaceCommas(s))

\* The number parseNum(v) returns: String(v ?? "") with commas turned into
\* periods, converted by Number; 0 when the result is not finite.
parseNumValue(v) ==
  LET s == IF v.t \in {"null", "undefined"} THEN <<>> ELSE StringOf(v)
      n == StringToNumber(ReplaceCommas(s))
  IN IF IsFinite(n) THEN n ELSE Finite(Zero)

\* parseNum(v), as the rational the arithmetic of the model works on.
parseNum(v) == parseNumValue(v).v

\* parseNum of part_000: String(v) (null and undefined are not replaced by
\* ""), otherwise the same.
parseNumValueV1(v) ==
  LET n == StringToNumber(ReplaceCommas(StringOf(v)))
  IN IF IsFinite(n) THEN n ELSE Finite(Zero)

(***************************************************************************)
(* JavaScript truthiness, arrays and Map                                   *)
(***************************************************************************)
\* The condition `v ? .. : ..` on a value: a non-empty string or a non-zero
\* number; null and undefined are falsy.
Truthy(v) ==
  CASE v.t = "string" -> v.str # <<>>
    [] v.t = "number" -> v.num # Zero
    [] OTHER -> FALSE

\* Array.isArray(data?.name) ? data.name : []  -- a collection the snapshot
\* does not have is read as the empty list.
ArrayOrEmpty(data, name) == IF name \in DOMAIN data THEN data[name] ELSE <<>>

\* A Map is the sequence of its entries [key, value] in insertion order.
MapHas(m, k) == \E i \in 1..Len(m) : m[i].key = k
MapGet(m, k) == m[CHOOSE i \in 1..Len(m) : m[i].key = k].value
\* Map.prototype.set: a present key keeps its position and takes the value.
MapSet(m, k, v) ==
  IF MapHas(m, k)
  THEN [i \in 1..Len(m) |-> IF m[i].key = k THEN [key |-> k, value |-> v] ELSE m[i]]
  ELSE Append(m, [key |-> k, value |-> v])

\* arr.reduce((a, b) => a + f(b), 0) for the number b[field] of each entry.
RECURSIVE SumField(_, _)
SumField(arr, field) ==
  IF arr = <<>> THEN Zero
  ELSE Add(SumField(SubSeq(arr, 1, Len(arr) - 1), field), arr[Len(arr)][field])

(***************************************************************************)
(* calculateReports                                                        *)
(***************************************************************************)
\* for (const pur of purchases) batchStats.set(pur.id, {...})
RECURSIVE initBatchStats(_)
initBatchStats(purchases) ==
  IF purchases = <<>> THEN <<>>
  ELSE LET pur == purchases[Len(purchases)]
       IN MapSet(initBatchStats(SubSeq(purchases, 1, Len(purchases) - 1)), pur.id,
                 [batch |-> pur,
                  purchasedQty |-> parseNum(pur.qty),
                  unitCost |-> parseNum(pur.unitPrice),
                  soldQty |-> Zero,
                  salesRevenue |-> Zero,
                  expensesTotal |-> Zero])

\* Mutant of saleStep: a sale of an unknown batch opens an entry for it
\* (batchStats.get(id) || {...}) instead of being skipped.
saleStep_OpensEntry(batchStats, s) ==
  LET st == IF MapHas(batchStats, s.batchId) THEN MapGet(batchStats, s.batchId)
            ELSE [batch |-> s, purchasedQty |-> Zero, unitCost |-> Zero, soldQty |-> Zero,
                  salesRevenue |-> Zero, expensesTotal |-> Zero]
      qty == parseNum(s.qty)
      price == parseNum(s.unitPrice)
  IN MapSet(batchStats, s.batchId,
            [st EXCEPT !.soldQty = Add(st.soldQty, qty),
                       !.salesRevenue = Add(st.salesRevenue, Mul(qty, price))])

\* Mutant of saleStep: the sale's quantity and amount are assigned to the
\* batch (=) instead of being added to it (+=).
saleStep_Overwrites(batchStats, s) ==
  IF ~MapHas(batchStats, s.batchId) THEN batchStats
  ELSE LET st == MapGet(batchStats, s.batchId)
           qty == parseNum(s.qty)
           price == parseNum(s.unitPrice)
       IN MapSet(batchStats, s.batchId,
                 [st EXCEPT !.soldQty = qty, !.salesRevenue = Mul(qty, price)])

\* One sale of the sales pass: a sale whose batchId is no key of batchStats
\* is skipped; otherwise soldQty += qty and salesRevenue += qty * price.
saleStep(batchStats, s) ==
  IF ~MapHas(batchStats, s.batchId) THEN batchStats
  ELSE LET st == MapGet(batchStats, s.batchId)
           qty == parseNum(s.qty)
           price == parseNum(s.unitPrice)
       IN MapSet(batchStats, s.batchId,
                 [st EXCEPT !.soldQty = Add(st.soldQty, qty),
                            !.salesRevenue = Add(st.salesRevenue, Mul(qty, price))])

RECURSIVE salesPass(_, _)
salesPass(batchStats, sales) ==
  IF sales = <<>> THEN batchStats
  ELSE saleStep(salesPass(batchStats, SubSeq(sales, 1, Len(sales) - 1)), sales[Len(sales)])

\* Mutant of expenseStep: an expense of an unknown batch opens an entry for
\* it instead of being skipped.
expenseStep_OpensEntry(batchStats, e) ==
  LET st == IF MapHas(batchStats, e.batchId) THEN MapGet(batchStats, e.batchId)
            ELSE [batch |-> e, purchasedQty |-> Zero, unitCost |-> Zero, soldQty |-> Zero,
                  salesRevenue |-> Zero, expensesTotal |-> Zero]
  IN MapSet(batchStats, e.batchId,
            [st EXCEPT !.expensesTotal = Add(st.expensesTotal, parseNum(e.amount))])

\* One expense of the expenses pass: skipped when its batchId is no key of
\* batchStats; otherwise expensesTotal += amount.
expenseStep(batchStats, e) ==
  IF ~MapHas(batchStats, e.batchId) THEN batchStats
  ELSE LET st == MapGet(batchStats, e.batchId)
       IN MapSet(batchStats, e.batchId,
                 [st EXCEPT !.expensesTotal = Add(st.expensesTotal, parseNum(e.amount))])

RECURSIVE expensesPass(_, _)
expensesPass(batchStats, expenses) ==
  IF expenses = <<>> THEN batchStats
  ELSE expenseStep(expensesPass(batchStats, SubSeq(expenses, 1, Len(expenses) - 1)),
                   expenses[Len(expenses)])

\* Mutant of derivePerBatch: the stock is not clamped at zero.
derivePerBatch_NoClamp(batchId, st) ==
  LET purchased == st.purchasedQty
      sold == st.soldQty
      stock == Sub(purchased, sold)
      revenue == st.salesRevenue
      cogs == Mul(st.unitCost, sold)
      expensesFull == st.expensesTotal
      profit == Sub(Sub(revenue, cogs), expensesFull)
      stockCost == Mul(stock, st.unitCost)
  IN [batchId |-> batchId,
      batch |-> st.batch,
      purchased |-> purchased,
      sold |-> sold,
      stock |-> stock,
      stockCost |-> stockCost,
      unitCost |-> st.unitCost,
      expensesTotal |-> expensesFull,
      revenue |-> revenue,
      cogs |-> cogs,
      profit |-> profit,
      overSold |-> Gt(sold, purchased)]

\* Mutant of derivePerBatch: overSold is sold >= purchased.
derivePerBatch_OverSoldGeq(batchId, st) ==
  LET purchased == st.purchasedQty
      sold == st.soldQty
      stock == MathMax(Zero, Sub(purchased, sold))
      revenue == st.salesRevenue
      cogs == Mul(st.unitCost, sold)
      expensesFull == st.expensesTotal
      profit == Sub(Sub(revenue, cogs), expensesFull)
      stockCost == Mul(stock, st.unitCost)
  IN [batchId |-> batchId,
      batch |-> st.batch,
      purchased |-> purchased,
      sold |-> sold,
      stock |-> stock,
      stockCost |-> stockCost,
      unitCost |-> st.unitCost,
      expensesTotal |-> expensesFull,
      revenue |-> revenue,
      cogs |-> cogs,
      profit |-> profit,
      overSold |-> ~Gt(purchased, sold)]

\* Mutant of derivePerBatch: the expenses are prorated by the share of the
\* purchased quantity that is sold.
derivePerBatch_Prorated(batchId, st) ==
  LET purchased == st.purchasedQty
      sold == st.soldQty
      stock == MathMax(Zero, Sub(purchased, sold))
      revenue == st.salesRevenue
      cogs == Mul(st.unitCost, sold)
      expensesFull == IF st.purchasedQty.n = 0 THEN st.expensesTotal
                      ELSE Rat(st.expensesTotal.n * st.soldQty.n * st.purchasedQty.d,
                               st.expensesTotal.d * st.soldQty.d * st.purchasedQty.n)
      profit == Sub(Sub(revenue, cogs), expensesFull)
      stockCost == Mul(stock, st.unitCost)
  IN [batchId |-> batchId,
      batch |-> st.batch,
      purchased |-> purchased,
      sold |-> sold,
      stock |-> stock,
      stockCost |-> stockCost,
      unitCost |-> st.unitCost,
      expensesTotal |-> expensesFull,
      revenue |-> revenue,
      cogs |-> cogs,
      profit |-> profit,
      overSold |-> Gt(sold, purchased)]

\* Mutant of derivePerBatch: the cost of goods sold is charged on the
\* purchased quantity, not on the sold one.
derivePerBatch_CogsOnPurchased(batchId, st) ==
  LET purchased == st.purchasedQty
      sold == st.soldQty
      stock == MathMax(Zero, Sub(purchased, sold))
      revenue == st.salesRevenue
      cogs == Mul(st.unitCost, purchased)
      expensesFull == st.expensesTotal
      profit == Sub(Sub(revenue, cogs), expensesFull)
      stockCost == Mul(stock, st.unitCost)
  IN [batchId |-> batchId,
      batch |-> st.batch,
      purchased |-> purchased,
      sold |-> sold,
      stock |-> stock,
      stockCost |-> stockCost,
      unitCost |-> st.unitCost,
      expensesTotal |-> expensesFull,
      revenue |-> revenue,
      cogs |-> cogs,
      profit |-> profit,
      overSold |-> Gt(sold, purchased)]

\* The perBatch entry derived from one entry [batchId, st] of batchStats.
derivePerBatch(batchId, st) ==
  LET purchased == st.purchasedQty
      sold == st.soldQty
      stock == MathMax(Zero, Sub(purchased, sold))
      revenue == st.salesRevenue
      cogs == Mul(st.unitCost, sold)
      expensesFull == st.expensesTotal
      profit == Sub(Sub(revenue, cogs), expensesFull)
      stockCost == Mul(stock, st.unitCost)
  IN [batchId |-> batchId,
      batch |-> st.batch,
      purchased |-> purchased,
      sold |-> sold,
      stock |-> stock,
      stockCost |-> stockCost,
      unitCost |-> st.unitCost,
      expensesTotal |-> expensesFull,
      revenue |-> revenue,
      cogs |-> cogs,
      profit |-> profit,
      overSold |-> Gt(sold, purchased)]

\* Mutant of perBatchOf: a batch without sales and without expenses gets no
\* entry.
perBatchOf_ActiveOnly(batchStats) ==
  LET active == SelectSeq(batchStats,
                          LAMBDA e : e.value.soldQty # Zero \/ e.value.expensesTotal # Zero)
  IN [i \in 1..Len(active) |-> derivePerBatch(active[i].key, active[i].value)]

\* for (const [batchId, st] of batchStats) perBatch.push({...})
perBatchOf(batchStats) ==
  [i \in 1..Len(batchStats) |-> derivePerBatch(batchStats[i].key, batchStats[i].value)]

\* The customer key of a sale or payment.
NoName == Str(<<"(", "n", "o", "n", "a", "m", "e", ")">>)
customerKey(r) == IF Truthy(r.customer) THEN r.customer ELSE NoName

\* byCustomer.get(cust) || { invoiced: 0, paid: 0 }
customerEntry(byCustomer, cust) ==
  IF MapHas(byCustomer, cust) THEN MapGet(byCustomer, cust)
  ELSE [invoiced |-> Zero, paid |-> Zero]

\* One sale of the customer pass: invoiced += qty * unitPrice, for every
\* sale (its batchId is not looked at).
customerSaleStep(byCustomer, s) ==
  LET cust == customerKey(s)
      amt == Mul(parseNum(s.qty), parseNum(s.unitPrice))
      obj == customerEntry(byCustomer, cust)
  IN MapSet(byCustomer, cust, [obj EXCEPT !.invoiced = Add(obj.invoiced, amt)])

RECURSIVE customerSalesPass(_, _)
customerSalesPass(byCustomer, sales) ==
  IF sales = <<>> THEN byCustomer
  ELSE customerSaleStep(customerSalesPass(byCustomer, SubSeq(sales, 1, Len(sales) - 1)),
                        sales[Len(sales)])

\* One payment of the customer pass: paid += amount.
customerPaymentStep(byCustomer, p) ==
  LET cust == customerKey(p)
      amt == parseNum(p.amount)
      obj == customerEntry(byCustomer, cust)
  IN MapSet(byCustomer, cust, [obj EXCEPT !.paid = Add(obj.paid, amt)])

RECURSIVE customerPaymentsPass(_, _)
customerPaymentsPass(byCustomer, payments) ==
  IF payments = <<>> THEN byCustomer
  ELSE customerPaymentStep(
         customerPaymentsPass(byCustomer, SubSeq(payments, 1, Len(payments) - 1)),
         payments[Len(payments)])

\* Mutant of customerDebtsOf: the balance is clamped at zero.
customerDebtsOf_Clamped(byCustomer) ==
  [i \in 1..Len(byCustomer) |->
     [customer |-> byCustomer[i].key,
      invoiced |-> byCustomer[i].value.invoiced,
      paid |-> byCustomer[i].value.paid,
      balance |-> MathMax(Zero, Sub(byCustomer[i].value.invoiced, byCustomer[i].value.paid))]]

\* Array.from(byCustomer.entries()).map(([customer, v]) => ({...}))
customerDebtsOf(byCustomer) ==
  [i \in 1..Len(byCustomer) |->
     [customer |-> byCustomer[i].key,
      invoiced |-> byCustomer[i].value.invoiced,
      paid |-> byCustomer[i].value.paid,
      balance |-> Sub(byCustomer[i].value.invoiced, byCustomer[i].value.paid)]]

\* Math.max(0, b.balance) of every customer record.
unpaidOf(customerDebts) ==
  [i \in 1..Len(customerDebts) |-> [unpaid |-> MathMax(Zero, customerDebts[i].balance)]]

\* Mutant of totalsOf: unpaidTotal is the sum of the balances, a customer in
\* credit reducing it.
totalsOf_NetUnpaid(perBatch, customerDebts) ==
  [revenue |-> SumField(perBatch, "revenue"),
   cogs |-> SumField(perBatch, "cogs"),
   expensesFull |-> SumField(perBatch, "expensesTotal"),
   profit |-> SumField(perBatch, "profit"),
   paidTotal |-> SumField(customerDebts, "paid"),
   unpaidTotal |-> SumField(customerDebts, "balance"),
   stockQty |-> SumField(perBatch, "stock"),
   stockCost |-> SumField(perBatch, "stockCost")]

\* The totals of a report: sums over perBatch and over customerDebts.
totalsOf(perBatch, customerDebts) ==
  [revenue |-> SumField(perBatch, "revenue"),
   cogs |-> SumField(perBatch, "cogs"),
   expensesFull |-> SumField(perBatch, "expensesTotal"),
   profit |-> SumField(perBatch, "profit"),
   paidTotal |-> SumField(customerDebts, "paid"),
   unpaidTotal |-> SumField(unpaidOf(customerDebts), "unpaid"),
   stockQty |-> SumField(perBatch, "stock"),
   stockCost |-> SumField(perBatch, "stockCost")]

\* Mutant of calculateReports: the customer pass reads only the sales that
\* resolve to a batch.
calculateReports_ResolvedSalesOnly(data) ==
  LET purchases == ArrayOrEmpty(data, "purchases")
      sales == ArrayOrEmpty(data, "sales")
      expenses == ArrayOrEmpty(data, "expenses")
      payments == ArrayOrEmpty(data, "payments")
      batchStats == expensesPass(salesPass(initBatchStats(purchases), sales), expenses)
      perBatch == perBatchOf(batchStats)
      resolved == SelectSeq(sales, LAMBDA s : MapHas(batchStats, s.batchId))
      byCustomer == customerPaymentsPass(customerSalesPass(<<>>, resolved), payments)
      customerDebts == customerDebtsOf(byCustomer)
  IN [perBatch |-> perBatch,
      customerDebts |-> customerDebts,
      totals |-> totalsOf(perBatch, customerDebts)]

\* calculateReports(data): the per-batch statistics, the customer debts and
\* the totals of a snapshot.
calculateReports(data) ==
  LET purchases == ArrayOrEmpty(data, "purchases")
      sales == ArrayOrEmpty(data, "sales")
      expenses == ArrayOrEmpty(data, "expenses")
      payments == ArrayOrEmpty(data, "payments")
      batchStats == expensesPass(salesPass(initBatchStats(purchases), sales), expenses)
      perBatch == perBatchOf(batchStats)
      byCustomer == customerPaymentsPass(customerSalesPass(<<>>, sales), payments)
      customerDebts == customerDebtsOf(byCustomer)
  IN [perBatch |-> perBatch,
      customerDebts |-> customerDebts,
      totals |-> totalsOf(perBatch, customerDebts)]

(***************************************************************************)
(* JSON export and import                                                  *)
(***************************************************************************)
\* JSON.stringify of a field value: a number is written as its decimal
\* text, a string as a string literal, null as null; an undefined field is
\* left out of the object.
JSONStringifyValue(v) ==
  CASE v.t = "number" -> [j |-> "number", text |-> NumberToString(v.num)]
    [] v.t = "string" -> [j |-> "string", text |-> v.str]
    [] v.t = "null" -> [j |-> "null", text |-> <<>>]
    [] OTHER -> [j |-> "absent", text |-> <<>>]

\* JSON.parse of a field value; reading a field the object does not have
\* gives undefined.
JSONParseValue(w) ==
  CASE w.j = "number" -> Num(StringToNumber(w.text).v)
    [] w.j = "string" -> Str(w.text)
    [] w.j = "null" -> Null
    [] OTHER -> Undefined

\* The fields of a record that hold a value (the others are identifiers and
\* the date, which JSON carries as they are).
ValueFields == {"qty", "unitPrice", "amount", "customer"}

JSONStringifyRecord(r) ==
  [f \in DOMAIN r |-> IF f \in ValueFields THEN JSONStringifyValue(r[f]) ELSE r[f]]
JSONParseRecord(o) ==
  [f \in DOMAIN o |-> IF f \in ValueFields THEN JSONParseValue(o[f]) ELSE o[f]]

Buckets == {"purchases", "sales", "expenses", "payments"}

\* JSON.stringify(data, null, 2): the text of the backup file.
JSONStringify(d) ==
  [b \in DOMAIN d |-> [i \in 1..Len(d[b]) |-> JSONStringifyRecord(d[b][i])]]
\* JSON.parse(String(reader.result))
JSONParse(text) ==
  [b \in DOMAIN text |-> [i \in 1..Len(text[b]) |-> JSONParseRecord(text[b][i])]]

(***************************************************************************)
(* The store (one Firestore collection per bucket) and the application     *)
(***************************************************************************)
VARIABLES
  db,      \* the signed-in user's collections: documents [id, fields]
  nextId,  \* number of document ids the store has assigned
  data,    \* the in-memory snapshot (useState data) the forms and reports read
  report,  \* the report last computed by Reports from data
  file,    \* the text of the last exported backup file
  trip,    \* history: the snapshot last exported, and whether the file was
           \* then imported into the empty store
  user,    \* the signed-in user (useFirebase's user), NoUser when signed out
  op,      \* history: the last form submission or row removal and the store
           \* call it made
  input,   \* the argument of the function a call is about
  output,  \* what the call returned (or that it threw)
  confirmClear,  \* ECENApp's confirmClear: the clear button awaits its second click
  timers,  \* the number of pending setTimeout(() => setConfirmClear(false), 3000)
  editId   \* the editId of each of the four forms (NoId: the form adds)

vars == <<db, nextId, data, report, file, trip, user, op, input, output,
          confirmClear, timers, editId>>

\* The variables of the calls of single functions, and those of the forms.
callVars == <<input, output>>
formVars == <<user, op>>
uiVars == <<confirmClear, timers, editId>>

emptyData == [purchases |-> <<>>, sales |-> <<>>, expenses |-> <<>>, payments |-> <<>>]
NoReport == [perBatch |-> <<>>, customerDebts |-> <<>>, totals |-> [none |-> TRUE]]
NoFile == [none |-> <<>>]
NoTrip == [exported |-> emptyData, stage |-> "none"]
NoUser == "signed out"
User1 == "uid1"
NoOp == [kind |-> "none"]
\* The empty selection "" of editId and of the batch list; no form edits.
NoId == 0
NoEdit == [b \in Buckets |-> NoId]
\* The number of form submissions made so far, which op carries along.
SubmitsOf(o) == IF "n" \in DOMAIN o THEN o.n ELSE 0
NoInput == [none |-> TRUE]
NoOutput == [called |-> FALSE]

\* Bound of the model: the largest number of purchases in an initial
\* snapshot; batch ids 1..MaxBatches + 1 are referred to by sales and
\* expenses, so that some reference is always dangling.
MaxBatches == 2

NumOf(k) == Num(Int2Num(k))
Ali == Str(<<"A", "l", "i">>)
Veli == Str(<<"V", "e", "l", "i">>)
Blank == Str(<<>>)
Date1 == Str(<<"2", "0", "2", "5", "-", "0", "9", "-", "0", "1">>)

\* Inputs: the record contents the snapshots are drawn from.
PurchaseInputs ==
  { [qty |-> NumOf(2), unitPrice |-> NumOf(3)],
    [qty |-> Str(<<"1", ",", "5">>), unitPrice |-> NumOf(2)],
    [qty |-> NumOf(1), unitPrice |-> Undefined] }
SaleInputs ==
  { [batchId |-> 1, customer |-> Ali, qty |-> NumOf(1), unitPrice |-> NumOf(3)],
    [batchId |-> 1, customer |-> Veli, qty |-> NumOf(2), unitPrice |-> NumOf(2)],
    [batchId |-> 2, customer |-> Ali, qty |-> Str(<<"1", ",", "5">>), unitPrice |-> NumOf(2)],
    [batchId |-> 2, customer |-> Blank, qty |-> NumOf(3), unitPrice |-> NumOf(1)],
    [batchId |-> MaxBatches + 1, customer |-> Veli, qty |-> NumOf(2), unitPrice |-> NumOf(1)],
    [batchId |-> 1, customer |-> Undefined, qty |-> NumOf(1), unitPrice |-> NumOf(1)] }
ExpenseInputs ==
  { [batchId |-> 1, amount |-> NumOf(2)],
    [batchId |-> 2, amount |-> Str(<<"0", ",", "5">>)],
    [batchId |-> MaxBatches + 1, amount |-> NumOf(1)] }
PaymentInputs ==
  { [customer |-> Ali, amount |-> NumOf(1)],
    [customer |-> Ali, amount |-> NumOf(5)],
    [customer |-> Veli, amount |-> NumOf(2)],
    [customer |-> Blank, amount |-> NumOf(1)] }

\* The sequences of length n over S.
SeqsOfLen(S, n) == [1..n -> S]

\* The document the store holds for the i-th record of a collection: the
\* store's own id and the fields the form (or the import) wrote.
PurchaseDoc(i, in) ==
  [id |-> i, fields |-> [date |-> Date1, qty |-> in.qty, unitPrice |-> in.unitPrice]]
SaleDoc(i, in) ==
  [id |-> i, fields |-> [date |-> Date1, batchId |-> in.batchId, customer |-> in.customer,
                         qty |-> in.qty, unitPrice |-> in.unitPrice]]
ExpenseDoc(i, in) ==
  [id |-> i, fields |-> [date |-> Date1, batchId |-> in.batchId, name |-> "cargo",
                         amount |-> in.amount]]
PaymentDoc(i, in) ==
  [id |-> i, fields |-> [date |-> Date1, customer |-> in.customer, amount |-> in.amount]]

\* snap.docs.map(d => ({ id: d.id, ...d.data() })): the rows a subscription
\* delivers for a collection, in the order of the query (by date, then id;
\* the documents of a collection are kept in that order).
RowOf(doc) ==
  [f \in DOMAIN doc.fields \cup {"id"} |->
     IF f \in DOMAIN doc.fields THEN doc.fields[f] ELSE doc.id]
RowsOf(docs) == [i \in 1..Len(docs) |-> RowOf(docs[i])]
SnapshotOf(store) == [b \in Buckets |-> RowsOf(store[b])]

\* The store holding the given purchases, sales, expenses and payments;
\* document ids are unique within a collection.
StoreOf(ps, ss, es, ms) ==
  [purchases |-> [i \in 1..Len(ps) |-> PurchaseDoc(i, ps[i])],
   sales |-> [i \in 1..Len(ss) |-> SaleDoc(i, ss[i])],
   expenses |-> [i \in 1..Len(es) |-> ExpenseDoc(i, es[i])],
   payments |-> [i \in 1..Len(ms) |-> PaymentDoc(i, ms[i])]]

\* The first id the store assigns after the initial documents: an id no
\* initial document has and no sale or expense refers to.
FirstFreshId == MaxBatches + MaxRecords + 1

\* The states in which the store holds any choice of at most MaxBatches
\* purchases and of sales, expenses and payments, n records in all; the
\* subscriptions have delivered them, nothing is exported or reported yet.
InitOf(n) ==
  \E np \in 0..MaxBatches :
    \E ns \in 0..(n - np) :
      \E ne \in 0..(n - np - ns) :
        \E nm \in 0..(n - np - ns - ne) :
          \E ps \in SeqsOfLen(PurchaseInputs, np), ss \in SeqsOfLen(SaleInputs, ns),
             es \in SeqsOfLen(ExpenseInputs, ne), ms \in SeqsOfLen(PaymentInputs, nm) :
            /\ db = StoreOf(ps, ss, es, ms)
            /\ nextId = 0
            /\ data = SnapshotOf(StoreOf(ps, ss, es, ms))
            /\ report = NoReport
            /\ file = NoFile
            /\ trip = NoTrip
            /\ user = User1
            /\ op = NoOp
            /\ confirmClear = FALSE
            /\ timers = 0
            /\ editId = NoEdit
            /\ input = NoInput
            /\ output = NoOutput

Init == InitOf(MaxRecords)

\* Reports: useMemo(() => calculateReports(safeData), ..) on a render.
Reports ==
  /\ report' = calculateReports(data)
  /\ UNCHANGED <<db, nextId, data, file, trip, callVars, formVars, uiVars>>

Next == Reports

Spec == Init /\ [][Next]_vars

(***************************************************************************)
(* Export, clear and import                                                *)
(***************************************************************************)
\* Bounds of the model: the largest number of records in the snapshot a
\* round trip starts from, and the largest number of document ids the store
\* assigns to imported records.
MaxRoundTrip == 2
MaxFreshIds == 3

\* exportJSON: the snapshot in memory is written to the backup file.
ExportJSON ==
  /\ file' = JSONStringify(data)
  /\ trip' = [exported |-> data, stage |-> "exported"]
  /\ UNCHANGED <<db, nextId, data, report, callVars, formVars, uiVars>>

\* Mutant of deleteRow: the deletion of a purchase cascades to the sales and
\* expenses that refer to it.
deleteRow_Cascades(store, name, id) ==
  IF name = "purchases"
  THEN [store EXCEPT !.purchases = SelectSeq(@, LAMBDA doc : doc.id # id),
                     !.sales = SelectSeq(@, LAMBDA doc : doc.fields.batchId # id),
                     !.expenses = SelectSeq(@, LAMBDA doc : doc.fields.batchId # id)]
  ELSE [store EXCEPT ![name] = SelectSeq(store[name], LAMBDA doc : doc.id # id)]

\* deleteRow(uid, name, id): the document is removed from the collection.
deleteRow(store, name, id) ==
  [store EXCEPT ![name] = SelectSeq(store[name], LAMBDA doc : doc.id # id)]

\* for (const r of rows) await deleteRow(user.uid, b, r.id)
RECURSIVE deleteRows(_, _, _)
deleteRows(store, name, rows) ==
  IF rows = <<>> THEN store
  ELSE deleteRows(deleteRow(store, name, Head(rows).id), name, Tail(rows))

\* clearAll: every row of every bucket of the snapshot in memory is deleted
\* from the store; nothing is done when no user is signed in.
ClearAll ==
  /\ user # NoUser
  /\ db' = deleteRows(deleteRows(deleteRows(deleteRows(db,
             "purchases", data.purchases), "sales", data.sales),
             "expenses", data.expenses), "payments", data.payments)
  /\ trip' = [trip EXCEPT !.stage = IF @ = "exported" THEN "exported" ELSE "none"]
  /\ UNCHANGED <<nextId, data, report, file, callVars, formVars, uiVars>>

\* addRow(uid, name, payload): the store adds a document with the payload
\* under an id of its own, the k-th fresh one.
addRow(store, name, payload, k) ==
  [store EXCEPT ![name] = Append(@, [id |-> FirstFreshId + k, fields |-> payload])]

\* const clean = { ...r }; delete clean.id;
cleanOf(r) == [f \in DOMAIN r \ {"id"} |-> r[f]]

\* for (const r of arr) { ...; await addRow(user.uid, b, clean); }
RECURSIVE importRows(_, _, _, _)
importRows(store, name, arr, k) ==
  IF arr = <<>> THEN store
  ELSE importRows(addRow(store, name, cleanOf(Head(arr)), k), name, Tail(arr), k + 1)

\* Array.isArray(json[b]) ? json[b] : []
bucketOf(json, b) == IF b \in DOMAIN json THEN json[b] ELSE <<>>

\* handleImport(file), reader.onload: every record of the four buckets of
\* the parsed file is added to the store without its id.
importAll(store, json, k) ==
  LET p == bucketOf(json, "purchases")
      s == bucketOf(json, "sales")
      e == bucketOf(json, "expenses")
      m == bucketOf(json, "payments")
      s1 == importRows(store, "purchases", p, k)
      s2 == importRows(s1, "sales", s, k + Len(p))
      s3 == importRows(s2, "expenses", e, k + Len(p) + Len(s))
  IN importRows(s3, "payments", m, k + Len(p) + Len(s) + Len(e))

\* Mutant of HandleImport: the file is imported whether or not a user is
\* signed in.
HandleImport_NoUserCheck ==
  /\ file # NoFile
  /\ LET json == JSONParse(file)
         n == Len(bucketOf(json, "purchases")) + Len(bucketOf(json, "sales"))
              + Len(bucketOf(json, "expenses")) + Len(bucketOf(json, "payments"))
     IN /\ nextId + n <= MaxFreshIds
        /\ db' = importAll(db, json, nextId)
        /\ nextId' = nextId + n
  /\ trip' = [trip EXCEPT !.stage = IF @ = "exported" /\ db = emptyData
                                    THEN "imported" ELSE "none"]
  /\ UNCHANGED <<data, report, file, callVars, formVars, uiVars>>

HandleImport ==
  /\ file # NoFile
  /\ user # NoUser
  /\ LET json == JSONParse(file)
         n == Len(bucketOf(json, "purchases")) + Len(bucketOf(json, "sales"))
              + Len(bucketOf(json, "expenses")) + Len(bucketOf(json, "payments"))
     IN /\ nextId + n <= MaxFreshIds
        /\ db' = importAll(db, json, nextId)
        /\ nextId' = nextId + n
  /\ trip' = [trip EXCEPT !.stage = IF @ = "exported" /\ db = emptyData
                                    THEN "imported" ELSE "none"]
  /\ UNCHANGED <<data, report, file, callVars, formVars, uiVars>>

\* Mutant of OnSnapshot: the callback builds the snapshot anew around its own
\* rows instead of spreading the previous one.
OnSnapshot_DropsOthers(name) ==
  /\ data[name] # RowsOf(db[name])
  /\ data' = [emptyData EXCEPT ![name] = RowsOf(db[name])]
  /\ UNCHANGED <<db, nextId, report, file, trip, callVars, formVars, uiVars>>

\* The callback of the subscription to collection name: its rows replace
\* that collection of the snapshot in memory.
OnSnapshot(name) ==
  /\ data[name] # RowsOf(db[name])
  /\ data' = [data EXCEPT ![name] = RowsOf(db[name])]
  /\ UNCHANGED <<db, nextId, report, file, trip, callVars, formVars, uiVars>>

NextRoundTrip ==
  \/ ExportJSON
  \/ ClearAll
  \/ HandleImport
  \/ \E name \in Buckets : OnSnapshot(name)

InitRoundTrip == InitOf(MaxRoundTrip)

SpecRoundTrip == InitRoundTrip /\ [][NextRoundTrip]_vars

(***************************************************************************)
(* Properties of the reporting engine.  The quantities below are computed  *)
(* from the snapshot itself, record by record, not from the report.        *)
(***************************************************************************)
\* Reports has computed a report from data.
Computed == "revenue" \in DOMAIN report.totals

\* The sum of f[i] over the indices i in I.
RECURSIVE SumOver(_, _)
SumOver(I, f) ==
  IF I = {} THEN Zero
  ELSE LET i == CHOOSE j \in I : TRUE IN Add(f[i], SumOver(I \ {i}, f))

PurchaseIds(d) == {d.purchases[i].id : i \in 1..Len(d.purchases)}
\* The sales (expenses) of d that refer to batch id, and those that refer
\* to no purchase of d.
SalesOf(d, id) == {i \in 1..Len(d.sales) : d.sales[i].batchId = id}
ExpensesOf(d, id) == {i \in 1..Len(d.expenses) : d.expenses[i].batchId = id}
DanglingSales(d) == {i \in 1..Len(d.sales) : d.sales[i].batchId \notin PurchaseIds(d)}
DanglingExpenses(d) == {i \in 1..Len(d.expenses) : d.expenses[i].batchId \notin PurchaseIds(d)}

SaleAmount(s) == Mul(parseNum(s.qty), parseNum(s.unitPrice))
SoldQty(d, id) == SumOver(SalesOf(d, id), [i \in 1..Len(d.sales) |-> parseNum(d.sales[i].qty)])
Revenue(d, id) == SumOver(SalesOf(d, id), [i \in 1..Len(d.sales) |-> SaleAmount(d.sales[i])])
ExpenseSum(d, id) ==
  SumOver(ExpensesOf(d, id), [i \in 1..Len(d.expenses) |-> parseNum(d.expenses[i].amount)])

\* The customer key of a record: its customer, "(noname)" when the customer
\* is blank or missing.
KeyOf(r) == IF r.customer.t = "string" /\ r.customer.str # <<>> THEN r.customer ELSE NoName
CustomerKeys(d) ==
  {KeyOf(d.sales[i]) : i \in 1..Len(d.sales)} \cup {KeyOf(d.payments[i]) : i \in 1..Len(d.payments)}
Invoiced(d, c) ==
  SumOver({i \in 1..Len(d.sales) : KeyOf(d.sales[i]) = c},
          [i \in 1..Len(d.sales) |-> SaleAmount(d.sales[i])])
Paid(d, c) ==
  SumOver({i \in 1..Len(d.payments) : KeyOf(d.payments[i]) = c},
          [i \in 1..Len(d.payments) |-> parseNum(d.payments[i].amount)])
Balance(d, c) == Sub(Invoiced(d, c), Paid(d, c))

\* The sequence s without its i-th element.
Without(s, i) == SubSeq(s, 1, i - 1) \o SubSeq(s, i + 1, Len(s))

\* The customer record of c in a report ({} when there is none).
DebtsOf(r, c) == {i \in 1..Len(r.customerDebts) : r.customerDebts[i].customer = c}
InvoicedIn(r, c) ==
  SumOver(DebtsOf(r, c), [i \in 1..Len(r.customerDebts) |-> r.customerDebts[i].invoiced])

\* C2 (as stated): when the snapshot has no purchase, perBatch is empty and
\* every field of totals, paidTotal and unpaidTotal included, is zero.
C2_AllTotalsZero ==
  (Computed /\ data.purchases = <<>>) =>
    /\ report.perBatch = <<>>
    /\ \A f \in {"revenue", "cogs", "expensesFull", "profit", "paidTotal", "unpaidTotal",
                 "stockQty", "stockCost"} : report.totals[f] = Zero

\* C2 (amended): when the snapshot has no purchase, perBatch is empty and
\* the batch-derived totals (revenue, cogs, expensesFull, profit, stockQty,
\* stockCost) are zero, whatever the sales, expenses and payments contain;
\* paidTotal is the sum of the payments and unpaidTotal the sum of the
\* customers' positive balances, so both are zero when there is no sale and
\* no payment.
C2_BatchTotalsZero ==
  (Computed /\ data.purchases = <<>>) =>
    /\ report.perBatch = <<>>
    /\ \A f \in {"revenue", "cogs", "expensesFull", "profit", "stockQty", "stockCost"} :
         report.totals[f] = Zero
    /\ report.totals.paidTotal =
         SumOver(1..Len(data.payments),
                 [i \in 1..Len(data.payments) |-> parseNum(data.payments[i].amount)])
    /\ report.totals.unpaidTotal =
         SumOver(CustomerKeys(data),
                 [c \in CustomerKeys(data) |-> MathMax(Zero, Balance(data, c))])
    /\ (data.sales = <<>> /\ data.payments = <<>>) =>
         (report.totals.paidTotal = Zero /\ report.totals.unpaidTotal = Zero)

\* A report over a snapshot without purchases whose sales, expenses and
\* payments are not empty, with money paid and money owed.
C2_Witness ==
  /\ Computed
  /\ data.purchases = <<>>
  /\ data.sales # <<>> /\ data.expenses # <<>> /\ data.payments # <<>>
  /\ Gt(report.totals.paidTotal, Zero)

\* C3: a dangling sale adds qty * unitPrice to its customer's invoiced
\* amount and nothing to any batch or to totals.revenue, cogs and profit:
\* but for that invoiced amount, the report is the one of the snapshot
\* without the sale.
C3_DanglingSale ==
  Computed =>
    \A i \in DanglingSales(data) :
      LET s == data.sales[i]
          r0 == calculateReports([data EXCEPT !.sales = Without(data.sales, i)])
      IN /\ InvoicedIn(report, KeyOf(s)) = Add(InvoicedIn(r0, KeyOf(s)), SaleAmount(s))
         /\ Cardinality(DebtsOf(report, KeyOf(s))) = 1
         /\ report.perBatch = r0.perBatch
         /\ report.totals.revenue = r0.totals.revenue
         /\ report.totals.cogs = r0.totals.cogs
         /\ report.totals.profit = r0.totals.profit

\* A report over a snapshot with a purchase, a sale against it and a
\* dangling sale of a non-zero amount.
C3_Witness ==
  /\ Computed
  /\ data.purchases # <<>>
  /\ \E i \in DanglingSales(data) : SaleAmount(data.sales[i]) # Zero
  /\ \E i \in 1..Len(data.sales) : i \notin DanglingSales(data)

\* C4: a dangling expense contributes to nothing: the report is the report
\* of the snapshot without it.
C4_DanglingExpense ==
  Computed =>
    \A i \in DanglingExpenses(data) :
      report = calculateReports([data EXCEPT !.expenses = Without(data.expenses, i)])

\* A report over a snapshot with a purchase, an expense of that purchase
\* and a dangling expense of a non-zero amount.
C4_Witness ==
  /\ Computed
  /\ data.purchases # <<>>
  /\ \E i \in DanglingExpenses(data) : parseNum(data.expenses[i].amount) # Zero
  /\ \E i \in 1..Len(data.expenses) : i \notin DanglingExpenses(data)

\* C5: for every batch, stock = max(0, purchased - sold), where purchased is
\* the purchase's quantity and sold the sum of the quantities of its sales:
\* stock is 0 when sold >= purchased, purchased - sold otherwise, and never
\* negative.
C5_StockClamped ==
  Computed =>
    \A k \in 1..Len(report.perBatch) :
      LET b == report.perBatch[k]
          purchased == parseNum(b.batch.qty)
          sold == SoldQty(data, b.batchId)
      IN /\ b.purchased = purchased
         /\ b.sold = sold
         /\ b.stock = (IF Gt(sold, purchased) THEN Zero ELSE Sub(purchased, sold))
         /\ ~Gt(Zero, b.stock)

\* A report with a batch whose sales exceed its purchased quantity.
C5_Witness ==
  /\ Computed
  /\ \E k \in 1..Len(report.perBatch) :
       /\ Gt(SoldQty(data, report.perBatch[k].batchId), parseNum(report.perBatch[k].batch.qty))
       /\ report.perBatch[k].stock = Zero

\* C6: for every batch, overSold is true exactly when the sold quantity is
\* strictly greater than the purchased quantity; a report is computed also
\* for an oversold batch.
C6_OverSold ==
  Computed =>
    \A k \in 1..Len(report.perBatch) :
      LET b == report.perBatch[k]
      IN b.overSold <=> Gt(SoldQty(data, b.batchId), parseNum(b.batch.qty))

\* A report with a batch sold out exactly (sold = purchased > 0), which is
\* not flagged.
C6_Witness ==
  /\ Computed
  /\ \E k \in 1..Len(report.perBatch) :
       /\ SoldQty(data, report.perBatch[k].batchId) = parseNum(report.perBatch[k].batch.qty)
       /\ Gt(report.perBatch[k].sold, Zero)
       /\ ~report.perBatch[k].overSold

\* C7: for every batch, profit = revenue - cogs - expensesTotal, with cogs =
\* unitCost * sold at the batch's own purchase unit price and expensesTotal
\* the full sum of the batch's expenses; totals.profit is the sum of the
\* per-batch profits.
C7_Profit ==
  Computed =>
    /\ \A k \in 1..Len(report.perBatch) :
         LET b == report.perBatch[k]
             cogs == Mul(parseNum(b.batch.unitPrice), SoldQty(data, b.batchId))
         IN /\ b.revenue = Revenue(data, b.batchId)
            /\ b.cogs = cogs
            /\ b.expensesTotal = ExpenseSum(data, b.batchId)
            /\ b.profit = Sub(Sub(Revenue(data, b.batchId), cogs), ExpenseSum(data, b.batchId))
    /\ report.totals.profit =
         SumOver(1..Len(report.perBatch),
                 [k \in 1..Len(report.perBatch) |-> report.perBatch[k].profit])

\* A report with a batch that is partly sold (stock left) and has expenses.
C7_Witness ==
  /\ Computed
  /\ \E k \in 1..Len(report.perBatch) :
       /\ Gt(report.perBatch[k].stock, Zero)
       /\ Gt(report.perBatch[k].sold, Zero)
       /\ Gt(report.perBatch[k].expensesTotal, Zero)
       /\ Gt(report.perBatch[k].cogs, Zero)

\* C8: totals.unpaidTotal is the sum over the customers of max(0, balance)
\* (a customer in credit contributes 0) and totals.paidTotal is the sum of
\* the customers' paid amounts.
C8_UnpaidTotal ==
  Computed =>
    /\ report.totals.unpaidTotal =
         SumOver(CustomerKeys(data),
                 [c \in CustomerKeys(data) |->
                    IF Gt(Balance(data, c), Zero) THEN Balance(data, c) ELSE Zero])
    /\ report.totals.paidTotal =
         SumOver(CustomerKeys(data), [c \in CustomerKeys(data) |-> Paid(data, c)])

\* A report with a customer in credit and another customer who owes money.
C8_Witness ==
  /\ Computed
  /\ \E c1, c2 \in CustomerKeys(data) :
       /\ Gt(Zero, Balance(data, c1))
       /\ Gt(Balance(data, c2), Zero)
  /\ Gt(report.totals.unpaidTotal, Zero)

\* C9: customerDebts has exactly one record per customer key of the sales
\* and payments, with invoiced the sum of qty * unitPrice of the customer's
\* sales, paid the sum of the customer's payments and balance = invoiced -
\* paid (negative for an overpayment); a blank or missing customer has the
\* key "(noname)".
C9_CustomerDebts ==
  Computed =>
    /\ Len(report.customerDebts) = Cardinality(CustomerKeys(data))
    /\ {report.customerDebts[i].customer : i \in 1..Len(report.customerDebts)}
         = CustomerKeys(data)
    /\ \A i \in 1..Len(report.customerDebts) :
         LET r == report.customerDebts[i]
         IN /\ r.invoiced = Invoiced(data, r.customer)
            /\ r.paid = Paid(data, r.customer)
            /\ r.balance = Sub(Invoiced(data, r.customer), Paid(data, r.customer))

\* A report with a "(noname)" record made of a blank and of a missing
\* customer, and a customer whose balance is negative.
C9_Witness ==
  /\ Computed
  /\ \E i \in 1..Len(data.sales) : data.sales[i].customer = Undefined
  /\ \E i \in 1..Len(data.payments) : data.payments[i].customer = Blank
  /\ \E i \in 1..Len(report.customerDebts) : report.customerDebts[i].customer = NoName
  /\ \E i \in 1..Len(report.customerDebts) : Gt(Zero, report.customerDebts[i].balance)

\* C10: perBatch has exactly one entry per purchase: as many entries as
\* purchases, one for each purchase id, and the entry of a purchase without
\* sales and expenses has sold = 0, revenue = 0 and expensesTotal = 0.
C10_OneEntryPerPurchase ==
  Computed =>
    /\ Len(report.perBatch) = Len(data.purchases)
    /\ \A i \in 1..Len(data.purchases) :
         LET es == {k \in 1..Len(report.perBatch) :
                      report.perBatch[k].batchId = data.purchases[i].id}
         IN /\ Cardinality(es) = 1
            /\ \A k \in es :
                 /\ report.perBatch[k].batch = data.purchases[i]
                 /\ (SalesOf(data, data.purchases[i].id) = {}
                      /\ ExpensesOf(data, data.purchases[i].id) = {})
                    => /\ report.perBatch[k].sold = Zero
                       /\ report.perBatch[k].revenue = Zero
                       /\ report.perBatch[k].expensesTotal = Zero

\* A report over two purchases, one with a sale and one with neither sales
\* nor expenses.
C10_Witness ==
  /\ Computed
  /\ Len(data.purchases) = 2
  /\ \E i, j \in 1..Len(data.purchases) :
       /\ SalesOf(data, data.purchases[i].id) # {}
       /\ SalesOf(data, data.purchases[j].id) = {}
       /\ ExpensesOf(data, data.purchases[j].id) = {}

\* The statistics of a perBatch entry, without its identifiers.
StatsOf(b) ==
  [purchased |-> b.purchased, sold |-> b.sold, stock |-> b.stock, stockCost |-> b.stockCost,
   unitCost |-> b.unitCost, expensesTotal |-> b.expensesTotal, revenue |-> b.revenue,
   cogs |-> b.cogs, profit |-> b.profit, overSold |-> b.overSold]

\* Two reports have the same totals and the same per-batch statistics, each
\* as many times, whatever the identifiers and the order.
SameReport(r1, r2) ==
  /\ r1.totals = r2.totals
  /\ Len(r1.perBatch) = Len(r2.perBatch)
  /\ \A k \in 1..Len(r1.perBatch) :
       Cardinality({j \in 1..Len(r1.perBatch) : StatsOf(r1.perBatch[j]) = StatsOf(r1.perBatch[k])})
       = Cardinality({j \in 1..Len(r2.perBatch) : StatsOf(r2.perBatch[j]) = StatsOf(r1.perBatch[k])})

\* The exported file was imported into the empty store and the four
\* subscriptions have delivered the imported rows.
Reimported == trip.stage = "imported" /\ data = SnapshotOf(db)

\* C1: round trip: after a snapshot is exported and the file imported into
\* the empty store (fresh ids), the report of the new snapshot has the
\* totals and the per-batch statistics of the report of the exported one.
C1_RoundTrip ==
  Reimported => SameReport(calculateReports(data), calculateReports(trip.exported))

(***************************************************************************)
(* The boundary of calculateReports: the argument as a JavaScript value.   *)
(* A value is tagged with its type; an array carries its items.  A         *)
(* property an object does not have reads as undefined.                    *)
(***************************************************************************)
Arr(items) == [t |-> "array", items |-> items]
NotArr(kind) == [t |-> kind, items |-> <<>>]
Obj(props) == [t |-> "object", props |-> props]
NotObj(kind) == [t |-> kind, props |-> [b \in Buckets |-> NotArr("undefined")]]

\* data?.name
Prop(arg, name) == IF arg.t = "object" THEN arg.props[name] ELSE NotArr("undefined")
\* Array.isArray(v)
IsArray(v) == v.t = "array"

\* The collections calculateReports of ECENApp.jsx reads from its argument:
\* the properties that are arrays (the others are read as [] by
\* ArrayOrEmpty).
Collections(arg) ==
  [name \in {b \in Buckets : IsArray(Prop(arg, b))} |-> Prop(arg, name).items]

\* What a call did: it returned a value or it threw.
Returned(v) == [called |-> TRUE, threw |-> FALSE, value |-> v]
Threw == [called |-> TRUE, threw |-> TRUE, value |-> NoReport]

\* `for (const x of v)` throws a TypeError unless v is iterable (of the
\* values the snapshots hold, only an array is).
Iterable(v) == IsArray(v)

\* calculateReports of the local-storage variant of the component
\* (src/unnamed/part_000): the same passes, over data.purchases, data.sales,
\* data.expenses and data.payments as they are, without Array.isArray.
calculateReportsV1(arg) ==
  IF \A b \in Buckets : arg.t = "object" /\ Iterable(arg.props[b])
  THEN Returned(calculateReports(Collections(arg)))
  ELSE Threw

\* Inputs: one row per collection.
BoundaryRows ==
  SnapshotOf(StoreOf(<<[qty |-> NumOf(10), unitPrice |-> NumOf(5)]>>,
                     <<[batchId |-> 1, customer |-> Ali, qty |-> NumOf(4), unitPrice |-> NumOf(8)]>>,
                     <<[batchId |-> 1, amount |-> NumOf(20)]>>,
                     <<[customer |-> Ali, amount |-> NumOf(10)]>>))

\* What a property of the argument may hold: a list (empty or not), nothing,
\* null or a number.
BoundarySlots(name) ==
  {Arr(<<>>), Arr(BoundaryRows[name]), NotArr("undefined"), NotArr("null"), NotArr("number")}

\* The arguments: an object with any choice of the four properties, or no
\* snapshot at all (undefined, null).
BoundaryInputs ==
  {Obj(props) : props \in [Buckets -> UNION {BoundarySlots(b) : b \in Buckets}]}
  \cup {NotObj("undefined"), NotObj("null")}

InitBoundary ==
  /\ input \in {a \in BoundaryInputs :
                  a.t = "object" => \A b \in Buckets : a.props[b] \in BoundarySlots(b)}
  /\ output = NoOutput
  /\ db = emptyData
  /\ nextId = 0
  /\ data = emptyData
  /\ report = NoReport
  /\ file = NoFile
  /\ trip = NoTrip
  /\ user = NoUser
  /\ op = NoOp
  /\ confirmClear = FALSE
  /\ timers = 0
  /\ editId = NoEdit

\* A call of calculateReports (ECENApp.jsx) with the argument.
CallCalculateReports ==
  /\ output' = Returned(calculateReports(Collections(input)))
  /\ UNCHANGED <<db, nextId, data, report, file, trip, user, op, input, uiVars>>

\* A call of calculateReports (part_000) with the argument.
CallCalculateReportsV1 ==
  /\ output' = calculateReportsV1(input)
  /\ UNCHANGED <<db, nextId, data, report, file, trip, user, op, input, uiVars>>

NextBoundary == CallCalculateReports \/ CallCalculateReportsV1

SpecBoundary == InitBoundary /\ [][NextBoundary]_vars

\* The argument with every collection that is missing or is not a list
\* replaced by the empty list.
Completed(arg) ==
  [b \in Buckets |->
     IF arg.t = "object" /\ arg.props[b].t = "array" THEN arg.props[b].items ELSE <<>>]

\* C11: a call of calculateReports never throws, and it returns the report
\* of the snapshot in which every collection that is missing or is not a
\* list is empty (also when the snapshot itself is missing).
C11_TotalAtBoundary ==
  output.called =>
    /\ ~output.threw
    /\ output.value = calculateReports(Completed(input))

(***************************************************************************)
(* Order of the records                                                    *)
(***************************************************************************)
\* The sequence s read in the order f (a permutation of its indices).
Reordered(s, f) == [i \in 1..Len(s) |-> s[f[i]]]

\* The snapshot d with the records of collection name in the order f.
ReorderedIn(d, name, f) == [d EXCEPT ![name] = Reordered(d[name], f)]

EntriesOf(seq) == {seq[k] : k \in 1..Len(seq)}

ScenarioPurchases ==
  { [qty |-> NumOf(10), unitPrice |-> NumOf(5)],
    [qty |-> NumOf(2), unitPrice |-> NumOf(3)],
    [qty |-> Str(<<"1", ",", "5">>), unitPrice |-> NumOf(2)],
    [qty |-> NumOf(4), unitPrice |-> NumOf(0)] }
ScenarioSales ==
  { [batchId |-> 1, customer |-> Ali, qty |-> NumOf(4), unitPrice |-> NumOf(8)],
    [batchId |-> 1, customer |-> Ali, qty |-> NumOf(4), unitPrice |-> NumOf(7)],
    [batchId |-> 1, customer |-> Veli, qty |-> NumOf(2), unitPrice |-> NumOf(2)],
    [batchId |-> 1, customer |-> Blank, qty |-> Str(<<"1", ",", "5">>), unitPrice |-> NumOf(2)],
    [batchId |-> 1, customer |-> Ali, qty |-> NumOf(12), unitPrice |-> NumOf(1)],
    [batchId |-> MaxBatches + 1, customer |-> Ali, qty |-> NumOf(1), unitPrice |-> NumOf(1)] }
ScenarioExpenses ==
  { [batchId |-> 1, amount |-> NumOf(20)],
    [batchId |-> 1, amount |-> NumOf(10)],
    [batchId |-> 1, amount |-> Str(<<"0", ",", "5">>)],
    [batchId |-> MaxBatches + 1, amount |-> NumOf(1)] }
ScenarioPayments ==
  { [customer |-> Ali, amount |-> NumOf(10)],
    [customer |-> Ali, amount |-> NumOf(15)],
    [customer |-> Ali, amount |-> NumOf(40)],
    [customer |-> Veli, amount |-> NumOf(2)],
    [customer |-> Blank, amount |-> NumOf(1)] }

\* The states in which the store holds one purchase, one sale, one expense
\* and one payment, delivered by the subscriptions.
InitScenario ==
  \E p \in ScenarioPurchases, s \in ScenarioSales, e \in ScenarioExpenses,
     m \in ScenarioPayments :
    /\ db = StoreOf(<<p>>, <<s>>, <<e>>, <<m>>)
    /\ nextId = 0
    /\ data = SnapshotOf(StoreOf(<<p>>, <<s>>, <<e>>, <<m>>))
    /\ report = NoReport
    /\ file = NoFile
    /\ trip = NoTrip
    /\ user = User1
    /\ op = NoOp
    /\ confirmClear = FALSE
    /\ timers = 0
    /\ editId = NoEdit
    /\ input = NoInput
    /\ output = NoOutput

SpecScenario == InitScenario /\ [][Next]_vars

\* The snapshot is the scenario: one purchase, one sale against it of no
\* more than the purchased quantity, one expense against it and one payment
\* by the sale's customer.
IsScenario(d) ==
  /\ Len(d.purchases) = 1 /\ Len(d.sales) = 1 /\ Len(d.expenses) = 1 /\ Len(d.payments) = 1
  /\ d.sales[1].batchId = d.purchases[1].id
  /\ d.expenses[1].batchId = d.purchases[1].id
  /\ ~Gt(parseNum(d.sales[1].qty), parseNum(d.purchases[1].qty))
  /\ d.payments[1].customer = d.sales[1].customer

\* C13: in the scenario (purchase of q at c, sale of s <= q at p to X,
\* expense e, payment m by X): revenue = s*p, cogs = s*c, expensesFull = e,
\* profit = s*p - s*c - e, stockQty = q - s, stockCost = (q - s)*c,
\* paidTotal = m, unpaidTotal = max(0, s*p - m), and the record of X has
\* invoiced = s*p, paid = m, balance = s*p - m.
C13_Scenario ==
  (Computed /\ IsScenario(data)) =>
    LET q == parseNum(data.purchases[1].qty)
        c == parseNum(data.purchases[1].unitPrice)
        s == parseNum(data.sales[1].qty)
        p == parseNum(data.sales[1].unitPrice)
        e == parseNum(data.expenses[1].amount)
        m == parseNum(data.payments[1].amount)
        X == KeyOf(data.sales[1])
        t == report.totals
    IN /\ t.revenue = Mul(s, p)
       /\ t.cogs = Mul(s, c)
       /\ t.expensesFull = e
       /\ t.profit = Sub(Sub(Mul(s, p), Mul(s, c)), e)
       /\ t.stockQty = Sub(q, s)
       /\ t.stockCost = Mul(Sub(q, s), c)
       /\ t.paidTotal = m
       /\ t.unpaidTotal = (IF Gt(Sub(Mul(s, p), m), Zero) THEN Sub(Mul(s, p), m) ELSE Zero)
       /\ Cardinality(DebtsOf(report, X)) = 1
       /\ \A i \in DebtsOf(report, X) :
            /\ report.customerDebts[i].invoiced = Mul(s, p)
            /\ report.customerDebts[i].paid = m
            /\ report.customerDebts[i].balance = Sub(Mul(s, p), m)

\* The report of the demo of runTests: revenue 32, cogs 20, expenses 20,
\* profit -8, stock 6 at cost 30, Ali invoiced 32, paid 10, balance 22.
C13_Witness ==
  /\ Computed /\ IsScenario(data)
  /\ report.totals.revenue = Int2Num(32)
  /\ report.totals.cogs = Int2Num(20)
  /\ report.totals.expensesFull = Int2Num(20)
  /\ report.totals.profit = Int2Num(-8)
  /\ report.totals.stockQty = Int2Num(6)
  /\ report.totals.stockCost = Int2Num(30)
  /\ \E i \in DebtsOf(report, Ali) :
       /\ report.customerDebts[i].invoiced = Int2Num(32)
       /\ report.customerDebts[i].paid = Int2Num(10)
       /\ report.customerDebts[i].balance = Int2Num(22)

(***************************************************************************)
(* Removal of a row (the delete button of a form's table)                  *)
(***************************************************************************)
\* remove(id) of PurchasesForm, SalesForm, ExpensesForm and PaymentsForm,
\* for a row of the table (a row of the snapshot in memory): nothing when no
\* user is signed in, else deleteRow.  op keeps the snapshot of the store
\* before the removal.
Remove(name) ==
  /\ user # NoUser
  /\ \E i \in 1..Len(data[name]) :
       /\ db' = deleteRow(db, name, data[name][i].id)
       /\ op' = [kind |-> "remove", name |-> name, id |-> data[name][i].id,
                 before |-> SnapshotOf(db), n |-> SubmitsOf(op)]
  /\ UNCHANGED <<nextId, data, report, file, trip, user, callVars, uiVars>>

\* The removal of purchases, the delivery of what the store then holds and
\* the report.  (The initial states are all the stores of up to MaxRemove
\* records, so the stores that removals of sales, expenses and payments
\* lead to are among them.)
NextRemove ==
  \/ Remove("purchases")
  \/ \E name \in Buckets : OnSnapshot(name)
  \/ Reports

\* Bound of the model: the largest number of records in the store a removal
\* starts from.
MaxRemove == 3

InitRemove == InitOf(MaxRemove)

SpecRemove == InitRemove /\ [][NextRemove]_vars

\* The last operation removed a purchase, the subscriptions have delivered
\* the store as it is now, and the report is the one of that snapshot.
PurchaseRemoved ==
  /\ op.kind = "remove" /\ op.name = "purchases"
  /\ data = SnapshotOf(db)
  /\ Computed /\ report = calculateReports(data)

\* C14: the deletion of a purchase does not cascade: the sales and expenses
\* of the store are those before the deletion (those that referred to the
\* purchase included); in the next report the batch has no entry,
\* totals.revenue is the revenue of the remaining batches, and every
\* customer's invoiced amount is what it was before the deletion.
C14_NoCascade ==
  PurchaseRemoved =>
    /\ data.sales = op.before.sales
    /\ data.expenses = op.before.expenses
    /\ \A i \in SalesOf(op.before, op.id) : data.sales[i] = op.before.sales[i]
    /\ \A k \in 1..Len(report.perBatch) : report.perBatch[k].batchId # op.id
    /\ report.totals.revenue =
         SumOver(PurchaseIds(op.before) \ {op.id},
                 [id \in PurchaseIds(op.before) \ {op.id} |-> Revenue(op.before, id)])
    /\ CustomerKeys(data) = CustomerKeys(op.before)
    /\ \A c \in CustomerKeys(op.before) :
         /\ Cardinality(DebtsOf(report, c)) = 1
         /\ InvoicedIn(report, c) = Invoiced(op.before, c)

\* A purchase with a sale of a non-zero amount and an expense against it was
\* removed, and the report of the new snapshot is computed.
C14_Witness ==
  /\ PurchaseRemoved
  /\ op.id \in PurchaseIds(op.before)
  /\ \E i \in SalesOf(op.before, op.id) : SaleAmount(op.before.sales[i]) # Zero
  /\ ExpensesOf(op.before, op.id) # {}

(***************************************************************************)
(* Batch names                                                             *)
(***************************************************************************)
\* r.f for a record r: undefined when r has no field f.
Field(r, f) == IF f \in DOMAIN r THEN r[f] ELSE Undefined

\* cs.split("-"): the parts of cs between the dashes ("" gives one empty
\* part).
RECURSIVE Split(_)
Split(cs) ==
  LET dashes == {i \in 1..Len(cs) : cs[i] = "-"}
  IN IF dashes = {} THEN <<cs>>
     ELSE LET i == CHOOSE j \in dashes : \A k \in dashes : j <= k
          IN <<SubSeq(cs, 1, i - 1)>> \o Split(SubSeq(cs, i + 1, Len(cs)))

\* cs.padStart(2, '0')
PadStart2(cs) ==
  IF Len(cs) >= 2 THEN cs ELSE IF Len(cs) = 1 THEN <<"0">> \o cs ELSE <<"0", "0">>

\* The text "P - " and the sentinel "P - ?".
PDash == <<"P", " ", "-", " ">>
Sentinel == Str(PDash \o <<"?">>)

\* String(NaN): what getDate(), getMonth() + 1 and getFullYear() of an
\* Invalid Date print as.
NaNText == <<"N", "a", "N">>

\* new Date(dateStr) reads no date from a string without a digit: the result
\* is an Invalid Date, whose getters return NaN and do not throw.  (A string
\* with digits that does not split into three non-empty parts is read in an
\* engine- and time-zone-dependent way; the model holds no such date.)
InvalidDateText == PadStart2(NaNText) \o PadStart2(NaNText) \o NaNText

\* formatBatchNameFromDate(dateStr)
formatBatchNameFromDate(dateStr) ==
  IF ~Truthy(dateStr) THEN Sentinel
  ELSE LET parts == Split(StringOf(dateStr))
           three == Len(parts) >= 3 /\ parts[1] # <<>> /\ parts[2] # <<>> /\ parts[3] # <<>>
       IN IF three THEN Str(PDash \o parts[3] \o parts[2] \o parts[1])
          ELSE Str(PDash \o InvalidDateText)

\* nextSeqForDate(purchases, dateStr): one plus the number of purchases of
\* that date, in two digits.
nextSeqForDate(purchases, dateStr) ==
  LET count == Cardinality({i \in 1..Len(purchases) : Field(purchases[i], "date") = dateStr}) + 1
  IN Str(PadStart2(NatToString(count)))

\* No purchase (the result of a find that finds nothing).
Missing == [missing |-> TRUE]

\* Mutant of batchNameOf: the suffix is left out for the first sequence.
batchNameOf_FirstUnnumbered(purchase) ==
  IF "missing" \in DOMAIN purchase THEN Sentinel
  ELSE IF Truthy(Field(purchase, "batchName")) THEN Field(purchase, "batchName")
  ELSE LET base == formatBatchNameFromDate(Field(purchase, "date"))
           seq == Field(purchase, "batchSeq")
       IN IF Truthy(seq) /\ PadStart2(StringOf(seq)) # <<"0", "1">>
          THEN Str(base.str \o <<"-">> \o PadStart2(StringOf(seq)))
          ELSE base

\* Mutant of batchNameOf: the stored batchName is not looked at.
batchNameOf_Recomputed(purchase) ==
  IF "missing" \in DOMAIN purchase THEN Sentinel
  ELSE LET base == formatBatchNameFromDate(Field(purchase, "date"))
           seq == Field(purchase, "batchSeq")
       IN IF Truthy(seq) THEN Str(base.str \o <<"-">> \o PadStart2(StringOf(seq)))
          ELSE base

\* batchNameOf(purchase)
batchNameOf(purchase) ==
  IF "missing" \in DOMAIN purchase THEN Sentinel
  ELSE IF Truthy(Field(purchase, "batchName")) THEN Field(purchase, "batchName")
  ELSE LET base == formatBatchNameFromDate(Field(purchase, "date"))
           seq == Field(purchase, "batchSeq")
       IN IF Truthy(seq) THEN Str(base.str \o <<"-">> \o PadStart2(StringOf(seq)))
          ELSE base

\* Inputs: dates, sequences and stored names of a purchase.
Date2 == Str(<<"2", "0", "2", "4", "-", "1", "2", "-", "3", "1">>)
NameDates ==
  { Undefined, Null, Blank, NumOf(0), Date1, Date2,
    Str(<<"2", "0", "2", "5", "-", "1", "3", "-", "4", "5">>),
    Str(<<"a", "b", "c">>), Str(<<"a", "-", "b", "-", "c">>), Str(<<"-", "-">>),
    Str(<<"x", "-", "y">>) }
NameSeqs ==
  { Undefined, Null, Blank, NumOf(0), NumOf(1), NumOf(2), NumOf(12),
    Str(<<"1">>), Str(<<"0", "1">>), Str(<<"0", "2">>) }
NameNames == { Undefined, Blank, Str(<<"L", "o", "t", " ", "7">>) }
NamePurchases ==
  {[date |-> d, batchSeq |-> q, batchName |-> n] : d \in NameDates, q \in NameSeqs, n \in NameNames}
  \cup {[date |-> d, batchSeq |-> q] : d \in NameDates, q \in NameSeqs}

InitNames ==
  /\ input \in [purchase : NamePurchases] \cup {[purchase |-> Missing]}
  /\ output = NoOutput
  /\ db = emptyData
  /\ nextId = 0
  /\ data = emptyData
  /\ report = NoReport
  /\ file = NoFile
  /\ trip = NoTrip
  /\ user = NoUser
  /\ op = NoOp
  /\ confirmClear = FALSE
  /\ timers = 0
  /\ editId = NoEdit

\* A call of batchNameOf(purchase); base is what formatBatchNameFromDate
\* gives for the purchase's date.
CallBatchNameOf ==
  /\ output' = [called |-> TRUE,
                name |-> batchNameOf(input.purchase),
                base |-> formatBatchNameFromDate(Field(input.purchase, "date"))]
  /\ UNCHANGED <<db, nextId, data, report, file, trip, user, op, input, uiVars>>

NextNames == CallBatchNameOf

SpecNames == InitNames /\ [][NextNames]_vars

\* The names of the purchases of 2025-09-01.
Name0901 == PDash \o <<"0", "1", "0", "9", "2", "0", "2", "5">>

\* The purchase of the last call, when it has no stored batchName.
Unnamed ==
  /\ output.called
  /\ "missing" \notin DOMAIN input.purchase
  /\ ~Truthy(Field(input.purchase, "batchName"))

NoDate == {Undefined, Null, Blank}
NoSeq == {Undefined, Null, Blank, NumOf(0)}
FirstSeq == {NumOf(1), Str(<<"1">>), Str(<<"0", "1">>)}
SecondSeq == {NumOf(2), Str(<<"0", "2">>)}

\* C19 as stated: for a purchase without a stored batchName, batchNameOf with
\* date 2025-09-01 yields "P - 01092025" with no suffix when the sequence is
\* the default or the first (1), "P - 01092025-02" for the sequence "02", and
\* "P - ?" with a missing date.
C19_FirstHasNoSuffix ==
  Unnamed =>
    LET p == input.purchase
    IN /\ (p.date = Date1 /\ p.batchSeq \in NoSeq \cup FirstSeq
             => output.name = Str(Name0901))
       /\ (p.date = Date1 /\ p.batchSeq = Str(<<"0", "2">>)
             => output.name = Str(Name0901 \o <<"-", "0", "2">>))
       /\ (p.date \in NoDate => output.name = Sentinel)

\* C19 amended: for a purchase without a stored batchName, batchNameOf with
\* date 2025-09-01 yields "P - 01092025" with no suffix only when the purchase
\* has no sequence (absent, empty or 0); every sequence, the first included,
\* is appended in two digits ("-01" for 1 or "01", "-02" for "02", "-12" for
\* 12).  With a missing date it yields "P - ?" when there is no sequence and
\* "P - ?-SS" when there is one.
C19_SuffixWithSequence ==
  Unnamed =>
    LET p == input.purchase
        base == IF p.date = Date1 THEN Name0901 ELSE PDash \o <<"?">>
    IN p.date \in {Date1} \cup NoDate =>
         /\ (p.batchSeq \in NoSeq => output.name = Str(base))
         /\ (p.batchSeq \in FirstSeq => output.name = Str(base \o <<"-", "0", "1">>))
         /\ (p.batchSeq \in SecondSeq => output.name = Str(base \o <<"-", "0", "2">>))
         /\ (p.batchSeq = NumOf(12) => output.name = Str(base \o <<"-", "1", "2">>))

\* The first purchase of 2025-09-01 as the form stores it (sequence "01"),
\* read without its stored name: the suffix -01 is there.
C19_Witness ==
  /\ Unnamed
  /\ input.purchase.date = Date1
  /\ input.purchase.batchSeq = Str(<<"0", "1">>)
  /\ output.name = Str(Name0901 \o <<"-", "0", "1">>)

\* A year-month-day date: YYYY-MM-DD in digits, month 01..12, day 01..31.
IsValidYMD(v) ==
  /\ v.t = "string"
  /\ Len(v.str) = 10
  /\ \A i \in 1..10 : IF i \in {5, 8} THEN v.str[i] = "-" ELSE IsDigit(v.str[i])
  /\ DigitsToNat(SubSeq(v.str, 6, 7)) \in 1..12
  /\ DigitsToNat(SubSeq(v.str, 9, 10)) \in 1..31

\* C20: when the date of a purchase is missing or is not a valid
\* year-month-day date, the name reconstructed from the date is the sentinel
\* "P - ?" and nothing else.
C20_SentinelForBadDate ==
  (output.called /\ "missing" \notin DOMAIN input.purchase) =>
    (~IsValidYMD(input.purchase.date) => output.base = Sentinel)

(***************************************************************************)
(* Entry forms                                                             *)
(***************************************************************************)
\* a / b for b # 0.
Div(a, b) ==
  IF b.n > 0 THEN Rat(a.n * b.d, a.d * b.n) ELSE Rat(-(a.n * b.d), a.d * (-b.n))

\* The program of part_000 has no account: its records live in data, in the
\* browser.
LocalOnly == "local"

\* updateRow(uid, name, id, patch): the fields of the patch replace those of
\* the document.  updateDoc rejects, and changes nothing, when the document
\* does not exist or a field of the patch is undefined.
updateRejects(store, name, id, patch) ==
  \/ \A i \in 1..Len(store[name]) : store[name][i].id # id
  \/ \E f \in DOMAIN patch \cap {"batchSeq", "batchName"} : patch[f] = Undefined
updateRow(store, name, id, patch) ==
  IF updateRejects(store, name, id, patch) THEN store
  ELSE [store EXCEPT ![name] =
          [i \in 1..Len(@) |->
             IF @[i].id # id THEN @[i]
             ELSE [id |-> id,
                   fields |-> [f \in DOMAIN @[i].fields \cup DOMAIN patch |->
                                 IF f \in DOMAIN patch THEN patch[f] ELSE @[i].fields[f]]]]]

\* Mutant of derivedUnitPrice: the quotient is taken the wrong way round.
derivedUnitPrice_Inverted(q, up, amt) ==
  IF up = Zero /\ q # Zero /\ amt # Zero THEN Div(q, amt) ELSE up

\* What the forms compute from the three numeric fields.
\* if (!up && q && amt) up = amt / q;
derivedUnitPrice(q, up, amt) ==
  IF up = Zero /\ q # Zero /\ amt # Zero THEN Div(amt, q) ELSE up
\* (The amount the forms derive, amt = q * up, is not stored: the record is
\* written with amount: q * up.)

\* The submissions a behaviour may make.
MaxSubmits == 1

\* The records kept: the documents of the store or, in part_000, data.
StoredRows == IF user = LocalOnly THEN data ELSE SnapshotOf(db)

\* The record of a submission: the form, its fields, whether they passed the
\* form's validation, the records kept before.
Submitted(form, f, accepted) ==
  [kind |-> "submit", form |-> form, fields |-> f, accepted |-> accepted,
   before |-> StoredRows, n |-> SubmitsOf(op) + 1]

\* resetInputs() after a save that did not throw: the form adds again.  A
\* rejected submission returns before it, and an updateRow that rejects
\* throws before it.
editIdAfter(name, f, rejected, patch) ==
  IF rejected \/ (f.editId # NoId /\ updateRejects(db, name, f.editId, patch))
  THEN editId
  ELSE [editId EXCEPT ![name] = NoId]

\* The contents of the form fields: what the user typed, or left blank.
Cargo == "cargo"
FormFields(dates, batchIds, customers, names, qtys, unitPrices, amounts, editIds) ==
  [date : dates, batchId : batchIds, customer : customers, name : names,
   qty : qtys, unitPrice : unitPrices, amount : amounts, editId : editIds]
\* The fields with at most one of the required texts left blank.
IsBlankField(f, k) ==
  CASE k = "batchId" -> f[k] = NoId
    [] k = "name" -> f[k] = ""
    [] OTHER -> f[k] = Blank
OneBlank(fs, required) ==
  {f \in fs : Cardinality({k \in required : IsBlankField(f, k)}) <= 1}
EditIds(name) == {editId[name]}
Text2 == Str(<<"2">>)
Text3 == Str(<<"3">>)
Text6 == Str(<<"6">>)
Minus1 == Str(<<"-", "1">>)
Minus2 == Str(<<"-", "2">>)
Minus6 == Str(<<"-", "6">>)
PurchaseFields ==
  FormFields({Blank, Date1}, {NoId}, {Blank}, {""}, {Blank, Text2, Minus1},
             {Blank, Text3, Minus2}, {Blank, Text6, Minus6}, EditIds("purchases"))
SaleFields ==
  FormFields({Blank, Date1}, {NoId, 1}, {Blank, Ali}, {""}, {Blank, Text2, Minus1},
             {Blank, Text3}, {Blank, Text6}, EditIds("sales"))
ExpenseFields ==
  FormFields({Blank, Date1}, {NoId, 1}, {Blank}, {"", Cargo}, {Blank},
             {Blank}, {Blank, Text2, Minus2}, EditIds("expenses"))
PaymentFields ==
  FormFields({Blank, Date1}, {NoId}, {Blank, Ali}, {""}, {Blank},
             {Blank}, {Blank, Text2, Minus2}, EditIds("payments"))

\* PurchasesForm.addOrSave
PurchasesSave(f) ==
    LET q == parseNum(f.qty)
        up == derivedUnitPrice(q, parseNum(f.unitPrice), parseNum(f.amount))
        found == {i \in 1..Len(data.purchases) : data.purchases[i].id = f.editId}
        r == IF found = {} THEN [none |-> TRUE]
             ELSE data.purchases[CHOOSE i \in found : \A j \in found : i <= j]
        seq == nextSeqForDate(data.purchases, f.date)
        name == Str(formatBatchNameFromDate(f.date).str \o <<"-">> \o seq.str)
        core == [date |-> f.date, qty |-> Num(q), unitPrice |-> Num(up),
                 amount |-> Num(Mul(q, up))]
        patch == [k \in DOMAIN core \cup {"batchSeq", "batchName"} |->
                    IF k \in DOMAIN core THEN core[k] ELSE Field(r, k)]
        payload == [k \in DOMAIN core \cup {"batchSeq", "batchName"} |->
                      IF k \in DOMAIN core THEN core[k]
                      ELSE IF k = "batchSeq" THEN seq ELSE name]
        rejected == user = NoUser \/ ~Truthy(f.date) \/ q = Zero \/ up = Zero
    IN /\ user # LocalOnly
       /\ db' = IF rejected THEN db
                ELSE IF f.editId # NoId THEN updateRow(db, "purchases", f.editId, patch)
                ELSE addRow(db, "purchases", payload, nextId)
       /\ nextId' = IF ~rejected /\ f.editId = NoId THEN nextId + 1 ELSE nextId
       /\ editId' = editIdAfter("purchases", f, rejected, patch)
       /\ op' = Submitted("purchases", f, ~rejected)
       /\ UNCHANGED <<data, report, file, trip, user, callVars, confirmClear, timers>>

\* A submission of the form with any of the contents of the model.
PurchasesAddOrSave ==
  /\ SubmitsOf(op) < MaxSubmits
  /\ \E f \in PurchaseFields : PurchasesSave(f)

\* SalesForm.addOrSave
SalesSave(f) ==
    LET q == parseNum(f.qty)
        up == derivedUnitPrice(q, parseNum(f.unitPrice), parseNum(f.amount))
        payload == [date |-> f.date, batchId |-> f.batchId, customer |-> f.customer,
                    qty |-> Num(q), unitPrice |-> Num(up), amount |-> Num(Mul(q, up))]
        rejected == \/ user = NoUser
                    \/ ~Truthy(f.date) \/ f.batchId = NoId \/ ~Truthy(f.customer)
                    \/ q = Zero \/ up = Zero
    IN /\ user # LocalOnly
       /\ db' = IF rejected THEN db
                ELSE IF f.editId # NoId THEN updateRow(db, "sales", f.editId, payload)
                ELSE addRow(db, "sales", payload, nextId)
       /\ nextId' = IF ~rejected /\ f.editId = NoId THEN nextId + 1 ELSE nextId
       /\ editId' = editIdAfter("sales", f, rejected, payload)
       /\ op' = Submitted("sales", f, ~rejected)
       /\ UNCHANGED <<data, report, file, trip, user, callVars, confirmClear, timers>>

\* A submission of the form with any of the contents of the model.
SalesAddOrSave ==
  /\ SubmitsOf(op) < MaxSubmits
  /\ \E f \in OneBlank(SaleFields, {"date", "batchId", "customer"}) : SalesSave(f)

\* ExpensesForm.addOrSave
ExpensesSave(f) ==
    LET amt == parseNum(f.amount)
        payload == [date |-> f.date, batchId |-> f.batchId, name |-> f.name,
                    amount |-> Num(amt)]
        rejected == \/ user = NoUser
                    \/ ~Truthy(f.date) \/ f.batchId = NoId \/ f.name = "" \/ amt = Zero
    IN /\ user # LocalOnly
       /\ db' = IF rejected THEN db
                ELSE IF f.editId # NoId THEN updateRow(db, "expenses", f.editId, payload)
                ELSE addRow(db, "expenses", payload, nextId)
       /\ nextId' = IF ~rejected /\ f.editId = NoId THEN nextId + 1 ELSE nextId
       /\ editId' = editIdAfter("expenses", f, rejected, payload)
       /\ op' = Submitted("expenses", f, ~rejected)
       /\ UNCHANGED <<data, report, file, trip, user, callVars, confirmClear, timers>>

\* A submission of the form with any of the contents of the model.
ExpensesAddOrSave ==
  /\ SubmitsOf(op) < MaxSubmits
  /\ \E f \in OneBlank(ExpenseFields, {"date", "batchId", "name"}) : ExpensesSave(f)

\* PaymentsForm.addOrSave
PaymentsSave(f) ==
    LET amt == parseNum(f.amount)
        payload == [date |-> f.date, customer |-> f.customer, amount |-> Num(amt)]
        rejected == user = NoUser \/ ~Truthy(f.date) \/ ~Truthy(f.customer) \/ amt = Zero
    IN /\ user # LocalOnly
       /\ db' = IF rejected THEN db
                ELSE IF f.editId # NoId THEN updateRow(db, "payments", f.editId, payload)
                ELSE addRow(db, "payments", payload, nextId)
       /\ nextId' = IF ~rejected /\ f.editId = NoId THEN nextId + 1 ELSE nextId
       /\ editId' = editIdAfter("payments", f, rejected, payload)
       /\ op' = Submitted("payments", f, ~rejected)
       /\ UNCHANGED <<data, report, file, trip, user, callVars, confirmClear, timers>>

\* A submission of the form with any of the contents of the model.
PaymentsAddOrSave ==
  /\ SubmitsOf(op) < MaxSubmits
  /\ \E f \in PaymentFields : PaymentsSave(f)

\* date.replaceAll('-', '')
RemoveDashes(cs) == SelectSeq(cs, LAMBDA c : c # "-")

\* The fields of the forms of part_000: a numeric field not touched holds
\* the number 0.
PurchaseFieldsV1 ==
  FormFields({Blank, Date1}, {NoId}, {Blank}, {""}, {NumOf(0), Text2, Minus1},
             {NumOf(0), Text3, Minus2}, {NumOf(0), Text6, Minus6}, {NoId})
SaleFieldsV1 ==
  FormFields({Blank, Date1}, {NoId, 1}, {Blank, Ali}, {""}, {NumOf(0), Text2, Minus1},
             {NumOf(0), Text3}, {NumOf(0), Text6}, {NoId})

\* if ((up === 0 || !isFinite(up)) && amt > 0) up = amt / qtyN;
derivedUnitPriceV1(qtyN, up, amt) ==
  IF up = Zero /\ Gt(amt, Zero) THEN Div(amt, qtyN) ELSE up

\* PurchasesForm.add of part_000
PurchasesAddV1 ==
  \E f \in PurchaseFieldsV1 :
    LET qtyN == parseNum(f.qty)
        positive == Gt(qtyN, Zero)
        up == IF positive
              THEN derivedUnitPriceV1(qtyN, parseNum(f.unitPrice), parseNum(f.amount))
              ELSE parseNum(f.unitPrice)
        seq == nextSeqForDate(data.purchases, f.date)
        batchCode == Str(<<"P", "-">> \o RemoveDashes(f.date.str) \o <<"-">> \o seq.str)
        row == [id |-> FirstFreshId + nextId, date |-> f.date, batchCode |-> batchCode,
                qty |-> Num(qtyN), unitPrice |-> Num(up)]
        rejected == ~positive \/ Gt(Zero, up)
    IN /\ user = LocalOnly
       /\ SubmitsOf(op) < MaxSubmits
       /\ data' = IF rejected THEN data
                  ELSE [data EXCEPT !.purchases = <<row>> \o @]
       /\ nextId' = IF rejected THEN nextId ELSE nextId + 1
       /\ op' = Submitted("purchases", f, ~rejected)
       /\ UNCHANGED <<db, report, file, trip, user, callVars, uiVars>>

\* SalesForm.add of part_000; proceed is the answer to the confirm dialog
\* shown when the sale exceeds what is left of the batch.
SalesAddV1 ==
  \E f \in OneBlank(SaleFieldsV1, {"date", "batchId", "customer"}), proceed \in BOOLEAN :
    LET qtyN == parseNum(f.qty)
        positive == Gt(qtyN, Zero)
        up == IF positive
              THEN derivedUnitPriceV1(qtyN, parseNum(f.unitPrice), parseNum(f.amount))
              ELSE parseNum(f.unitPrice)
        ofBatch == {i \in 1..Len(data.sales) : data.sales[i].batchId = f.batchId}
        soldSoFar == SumOver(ofBatch, [i \in 1..Len(data.sales) |-> parseNum(data.sales[i].qty)])
        found == {i \in 1..Len(data.purchases) : data.purchases[i].id = f.batchId}
        purchased == IF found = {} THEN Zero
                     ELSE parseNum(data.purchases[CHOOSE i \in found : \A j \in found : i <= j].qty)
        exceeds == Gt(Add(qtyN, soldSoFar), purchased)
        row == [id |-> FirstFreshId + nextId, date |-> f.date, batchId |-> f.batchId,
                customer |-> f.customer, qty |-> Num(qtyN), unitPrice |-> Num(up)]
        rejected == \/ f.batchId = NoId \/ ~Truthy(f.customer)
                    \/ ~positive \/ Gt(Zero, up)
                    \/ (exceeds /\ ~proceed)
    IN /\ user = LocalOnly
       /\ SubmitsOf(op) < MaxSubmits
       /\ data' = IF rejected THEN data
                  ELSE [data EXCEPT !.sales = <<row>> \o @]
       /\ nextId' = IF rejected THEN nextId ELSE nextId + 1
       /\ op' = Submitted("sales", f, ~rejected)
       /\ UNCHANGED <<db, report, file, trip, user, callVars, uiVars>>

\* The store with one record of each kind, as the forms of ECENApp.jsx
\* write them, and the data of part_000 with one purchase and one sale.
FormStore ==
  [purchases |-> <<[id |-> 1, fields |->
                     [date |-> Date1, qty |-> NumOf(2), unitPrice |-> NumOf(3),
                      amount |-> NumOf(6), batchSeq |-> Str(<<"0", "1">>),
                      batchName |-> Str(Name0901 \o <<"-", "0", "1">>)]]>>,
   sales |-> <<[id |-> 2, fields |->
                 [date |-> Date1, batchId |-> 1, customer |-> Ali, qty |-> NumOf(1),
                  unitPrice |-> NumOf(3), amount |-> NumOf(3)]]>>,
   expenses |-> <<[id |-> 3, fields |->
                    [date |-> Date1, batchId |-> 1, name |-> Cargo, amount |-> NumOf(2)]]>>,
   payments |-> <<[id |-> 4, fields |->
                    [date |-> Date1, customer |-> Ali, amount |-> NumOf(1)]]>>]
FormDataV1 ==
  [purchases |-> <<[id |-> 1, date |-> Date1,
                    batchCode |-> Str(<<"P", "-">> \o RemoveDashes(Date1.str) \o <<"-", "0", "1">>),
                    qty |-> NumOf(2), unitPrice |-> NumOf(3)]>>,
   sales |-> <<[id |-> 2, date |-> Date1, batchId |-> 1, customer |-> Ali,
                qty |-> NumOf(1), unitPrice |-> NumOf(3)]>>,
   expenses |-> <<>>,
   payments |-> <<>>]

\* No form edits, or one form edits a row of its table (startEdit).
EditStates(d) ==
  {NoEdit} \cup UNION {{[NoEdit EXCEPT ![b] = d[b][i].id] : i \in 1..Len(d[b])} : b \in Buckets}

\* Signed in with the store delivered, signed out (data is emptied), or the
\* program of part_000 with its data.
InitForms ==
  /\ \/ /\ user = User1
        /\ db \in {emptyData, FormStore}
        /\ data = SnapshotOf(db)
        /\ editId \in EditStates(data)
     \/ /\ user = NoUser
        /\ db \in {emptyData, FormStore}
        /\ data = emptyData
        /\ editId = NoEdit
     \/ /\ user = LocalOnly
        /\ db = emptyData
        /\ data \in {emptyData, FormDataV1}
        /\ editId = NoEdit
  /\ nextId = 0
  /\ report = NoReport
  /\ file = NoFile
  /\ trip = NoTrip
  /\ op = NoOp
  /\ confirmClear = FALSE
  /\ timers = 0
  /\ input = NoInput
  /\ output = NoOutput

NextForms ==
  \/ PurchasesAddOrSave
  \/ SalesAddOrSave
  \/ ExpensesAddOrSave
  \/ PaymentsAddOrSave
  \/ PurchasesAddV1
  \/ SalesAddV1
  \/ \E name \in Buckets : user = User1 /\ OnSnapshot(name)

SpecForms == InitForms /\ [][NextForms]_vars

\* The last submission and what was entered in it.
Submission == op.kind = "submit"
EnteredQty == parseNum(op.fields.qty)
EnteredUnitPrice == parseNum(op.fields.unitPrice)
EnteredAmount == parseNum(op.fields.amount)
Priced == op.form \in {"purchases", "sales"}

\* A required text of the form of the last submission is blank.
RequiredBlank ==
  \/ op.fields.date = Blank
  \/ op.form \in {"sales", "expenses"} /\ op.fields.batchId = NoId
  \/ op.form \in {"sales", "payments"} /\ op.fields.customer = Blank
  \/ op.form = "expenses" /\ op.fields.name = ""
  \/ Priced /\ op.fields.qty = Blank
  \/ Priced /\ op.fields.unitPrice = Blank /\ op.fields.amount = Blank
  \/ ~Priced /\ op.fields.amount = Blank

\* C15: when a submission fails validation (a required field blank, quantity
\* <= 0, price < 0) no record is created or updated: the records kept after
\* the submission are those kept before it.
C15_RejectedLeavesStore ==
  (/\ Submission
   /\ \/ RequiredBlank
      \/ Priced /\ ~Gt(EnteredQty, Zero)
      \/ Priced /\ Gt(Zero, EnteredUnitPrice))
  => StoredRows = op.before

\* The numbers of a stored row (a field the row does not have reads as 0).
QtyOf(row) == parseNum(Field(row, "qty"))
UnitPriceOf(row) == parseNum(Field(row, "unitPrice"))
AmountOf(row) == parseNum(Field(row, "amount"))
RowsKept == {<<b, i>> \in Buckets \X (1..4) : i <= Len(StoredRows[b])}

\* C16: no submission with a negative quantity, unit price or amount creates
\* or updates a record, and every stored record has non-negative qty,
\* unitPrice and amount.
C16_NoNegativeStored ==
  /\ (/\ Submission
      /\ \/ Gt(Zero, EnteredQty)
         \/ Gt(Zero, EnteredUnitPrice)
         \/ Gt(Zero, EnteredAmount))
     => StoredRows = op.before
  /\ \A r \in RowsKept :
       LET row == StoredRows[r[1]][r[2]]
       IN ~Gt(Zero, QtyOf(row)) /\ ~Gt(Zero, UnitPriceOf(row)) /\ ~Gt(Zero, AmountOf(row))

\* The rows the last submission wrote: those kept now that were not kept
\* before it.
Written ==
  {i \in 1..Len(StoredRows[op.form]) :
     \A j \in 1..Len(op.before[op.form]) : op.before[op.form][j] # StoredRows[op.form][i]}

\* C17: in purchase and sale entry, when the unit price is zero or absent and
\* an amount and a quantity are given, the stored unit price is amount /
\* quantity (unitPrice * quantity = amount); a unit price that is given is
\* stored as it is; when the amount is absent the stored amount is quantity *
\* unitPrice; and every purchase and sale stored with an amount has amount =
\* qty * unitPrice (the forms of ECENApp.jsx always store the amount).
C17_Derived ==
  /\ (Submission /\ Priced) =>
       \A i \in Written :
         LET row == StoredRows[op.form][i]
             given == IF user = LocalOnly THEN Gt(EnteredAmount, Zero)
                      ELSE EnteredAmount # Zero
         IN /\ QtyOf(row) = EnteredQty
            /\ (EnteredUnitPrice = Zero /\ given
                  => Mul(UnitPriceOf(row), EnteredQty) = EnteredAmount)
            /\ (EnteredUnitPrice # Zero => UnitPriceOf(row) = EnteredUnitPrice)
            /\ (user # LocalOnly
                  => /\ "amount" \in DOMAIN row
                     /\ (EnteredAmount = Zero
                           => AmountOf(row) = Mul(EnteredQty, EnteredUnitPrice)))
  /\ \A r \in RowsKept :
       LET row == StoredRows[r[1]][r[2]]
       IN (r[1] \in {"purchases", "sales"} /\ "amount" \in DOMAIN row)
            => AmountOf(row) = Mul(QtyOf(row), UnitPriceOf(row))

\* A purchase entered with quantity 2, no unit price and amount 6 is stored
\* with unit price 3 and amount 6.
C17_Witness ==
  /\ Submission
  /\ op.form = "purchases"
  /\ user = User1
  /\ op.fields.qty = Text2 /\ op.fields.unitPrice = Blank /\ op.fields.amount = Text6
  /\ \E i \in Written :
       /\ StoredRows.purchases[i].unitPrice = NumOf(3)
       /\ StoredRows.purchases[i].amount = NumOf(6)

(***************************************************************************)
(* Numeric parsing                                                         *)
(***************************************************************************)
\* The arguments of parseNum: every text of at most MaxParseLen characters
\* of ParseChars, some longer texts, numbers, null and undefined.
MaxParseLen == 3
ParseChars == {"1", "5", ",", ".", "-", " ", "a"}
ParseTexts == UNION {[1..k -> ParseChars] : k \in 0..MaxParseLen}
ParseInputs ==
  {Str(cs) : cs \in ParseTexts}
  \cup { Str(<<"I", "n", "f", "i", "n", "i", "t", "y">>),
         Str(<<"-", "I", "n", "f", "i", "n", "i", "t", "y">>),
         Str(<<"a", "b", "c">>), Str(<<"1", ",", "2", ",", "5">>),
         NumOf(3), NumOf(-1), Num(Rat(3, 2)), Null, Undefined }

InitParse ==
  /\ input \in [v : ParseInputs]
  /\ output = NoOutput
  /\ db = emptyData
  /\ nextId = 0
  /\ data = emptyData
  /\ report = NoReport
  /\ file = NoFile
  /\ trip = NoTrip
  /\ user = NoUser
  /\ op = NoOp
  /\ confirmClear = FALSE
  /\ timers = 0
  /\ editId = NoEdit

\* The text with every comma written as a period.
Dotted(v) ==
  IF v.t = "string"
  THEN Str([i \in 1..Len(v.str) |-> IF v.str[i] = "," THEN "." ELSE v.str[i]])
  ELSE v

\* parseNum (of ECENApp.jsx, or of part_000) is called on the input and on
\* the same text written with periods.
CallParseNum ==
  /\ output' = [called |-> TRUE, by |-> "ECENApp.jsx",
                value |-> parseNumValue(input.v),
                dotted |-> parseNumValue(Dotted(input.v))]
  /\ UNCHANGED <<db, nextId, data, report, file, trip, user, op, input, uiVars>>

CallParseNumV1 ==
  /\ output' = [called |-> TRUE, by |-> "part_000",
                value |-> parseNumValueV1(input.v),
                dotted |-> parseNumValueV1(Dotted(input.v))]
  /\ UNCHANGED <<db, nextId, data, report, file, trip, user, op, input, uiVars>>

NextParse == CallParseNum \/ CallParseNumV1

SpecParse == InitParse /\ [][NextParse]_vars

\* Texts that write no finite number.
NotNumbers ==
  { Blank, Null, Undefined, Str(<<"a", "b", "c">>), Str(<<" ">>), Str(<<"-">>),
    Str(<<".">>), Str(<<",">>), Str(<<"1", "a">>), Str(<<"1", " ", "5">>),
    Str(<<"1", ",", "2", ",", "5">>), Str(<<"1", ".", ",">>), Str(<<"-", "-", "1">>),
    Str(<<"I", "n", "f", "i", "n", "i", "t", "y">>),
    Str(<<"-", "I", "n", "f", "i", "n", "i", "t", "y">>) }

\* C18: parseNum reads a comma as the decimal separator ("1,5" and "1.5"
\* both give 1.5, and every text gives what the same text with periods
\* gives); it returns 0 for "", "abc", null, undefined and the other inputs
\* that write no finite number; every call returns, and returns a finite
\* number.
C18_ParseNum ==
  output.called =>
    /\ output.value.kind = "finite"
    /\ output.value = output.dotted
    /\ (input.v \in {Str(<<"1", ",", "5">>), Str(<<"1", ".", "5">>), Num(Rat(3, 2))}
          => output.value = Finite(Rat(3, 2)))
    /\ (input.v = Str(<<"-", ",", "5">>) => output.value = Finite(Rat(-1, 2)))
    /\ (input.v = Str(<<" ", "1", "5">>) => output.value = Finite(Int2Num(15)))
    /\ (input.v \in NotNumbers => output.value = Finite(Zero))

\* "1,5" has been parsed as 1.5.
C18_Witness ==
  /\ output.called
  /\ input.v = Str(<<"1", ",", "5">>)
  /\ output.value = Finite(Rat(3, 2))

(***************************************************************************)
(* Relations between the parts of a report                                 *)
(***************************************************************************)
\* The invoiced amounts of all the customer records of the report, and the
\* amounts of the dangling sales of the snapshot.
InvoicedTotal ==
  SumOver(1..Len(report.customerDebts),
          [i \in 1..Len(report.customerDebts) |-> report.customerDebts[i].invoiced])
DanglingTotal ==
  SumOver(DanglingSales(data), [i \in 1..Len(data.sales) |-> SaleAmount(data.sales[i])])

StartEdit(name) ==
  /\ \E i \in 1..Len(data[name]) :
       editId' = [editId EXCEPT ![name] = data[name][i].id]
  /\ op' = [kind |-> "startEdit", name |-> name, n |-> SubmitsOf(op)]
  /\ UNCHANGED <<db, nextId, data, report, file, trip, user, callVars, confirmClear, timers>>

\* The submissions of PurchasesForm a behaviour may make, and the purchases
\* entered: quantity 2 at price 3 on either of two days.
MaxNamed == 2
BatchFields ==
  FormFields({Date1, Date2}, {NoId}, {Blank}, {""}, {Text2}, {Text3}, {Blank},
             EditIds("purchases"))

\* The store holds no purchase, one that PurchasesForm created, or one
\* without batchSeq and batchName (imported from a backup of part_000).
InitBatches ==
  /\ db \in { emptyData,
              [emptyData EXCEPT !.purchases = FormStore.purchases],
              [emptyData EXCEPT !.purchases = <<PurchaseDoc(1, [qty |-> NumOf(2), unitPrice |-> NumOf(3)])>>] }
  /\ data = SnapshotOf(db)
  /\ user = User1
  /\ nextId = 0
  /\ report = NoReport
  /\ file = NoFile
  /\ trip = NoTrip
  /\ op = NoOp
  /\ confirmClear = FALSE
  /\ timers = 0
  /\ editId = NoEdit
  /\ input = NoInput
  /\ output = NoOutput

NextBatches ==
  \/ SubmitsOf(op) < MaxNamed /\ \E f \in BatchFields : PurchasesSave(f)
  \/ StartEdit("purchases")
  \/ Remove("purchases")
  \/ OnSnapshot("purchases")

SpecBatches == InitBatches /\ [][NextBatches]_vars

\* The last action was a save of PurchasesForm that passed its validation,
\* creating (no edit in progress) or editing.
PurchaseSaved == Submission /\ op.form = "purchases" /\ op.accepted
PurchaseCreated == PurchaseSaved /\ op.fields.editId = NoId
PurchaseEdited == PurchaseSaved /\ op.fields.editId # NoId

\* "P - DDMMYYYY" of the two days of the model, and the two digits of a
\* sequence number below 10.
DayName(date) ==
  IF date = Date1 THEN Name0901
  ELSE PDash \o <<"3", "1", "1", "2", "2", "0", "2", "4">>
TwoDigits(k) == <<"0", DigitChars[k + 1]>>
SameDay(rows, date) == Cardinality({j \in 1..Len(rows) : rows[j].date = date})

\* C21: a purchase created through PurchasesForm is stored with batchName =
\* "P - DDMMYYYY" of its date followed by "-SS", SS being one plus the
\* number of purchases that carry the same date when it is created.
C21_NameAtCreation ==
  PurchaseCreated =>
    \A i \in Written :
      LET row == StoredRows.purchases[i]
          ss == TwoDigits(SameDay(op.before.purchases, row.date) + 1)
      IN /\ row.date = op.fields.date
         /\ row.batchSeq = Str(ss)
         /\ row.batchName = Str(DayName(row.date) \o <<"-">> \o ss)

\* The purchases kept before the last save that are still kept.
Kept ==
  {<<i, j>> \in (1..Len(StoredRows.purchases)) \X (1..Len(op.before.purchases)) :
     StoredRows.purchases[i].id = op.before.purchases[j].id}

\* C22: a save of PurchasesForm, an edit of date, quantity or price included,
\* leaves batchName and batchSeq of every purchase that existed as they were,
\* and batchNameOf of a purchase with a stored batchName is that batchName.
C22_NameFrozen ==
  /\ PurchaseSaved =>
       \A k \in Kept :
         /\ Field(StoredRows.purchases[k[1]], "batchName")
              = Field(op.before.purchases[k[2]], "batchName")
         /\ Field(StoredRows.purchases[k[1]], "batchSeq")
              = Field(op.before.purchases[k[2]], "batchSeq")
  /\ \A i \in 1..Len(StoredRows.purchases) :
       Truthy(Field(StoredRows.purchases[i], "batchName"))
         => batchNameOf(StoredRows.purchases[i]) = StoredRows.purchases[i].batchName

\* The purchase of 2025-09-01 has been edited to 2024-12-31 and still
\* carries the name and the sequence of its creation.
C22_Witness ==
  /\ PurchaseEdited
  /\ \E k \in Kept :
       /\ op.before.purchases[k[2]].date = Date1
       /\ StoredRows.purchases[k[1]].date = Date2
       /\ StoredRows.purchases[k[1]].batchName = Str(Name0901 \o <<"-", "0", "1">>)
       /\ StoredRows.purchases[k[1]].batchSeq = Str(<<"0", "1">>)
       /\ batchNameOf(StoredRows.purchases[k[1]]) = Str(Name0901 \o <<"-", "0", "1">>)

\* C23: no two purchases that exist at the same time carry the same
\* batchName.
C23_NamesDistinct ==
  \A i, j \in 1..Len(StoredRows.purchases) :
    (i # j /\ Truthy(Field(StoredRows.purchases[i], "batchName")))
      => Field(StoredRows.purchases[i], "batchName") # Field(StoredRows.purchases[j], "batchName")

\* C30: a valid save while an edit is in progress changes no record but the
\* edited one, adds none, and leaves the form in add mode; a valid save with
\* no edit in progress adds exactly one record and changes no other.
C30_EditOrAdd ==
  (Submission /\ op.accepted /\ user = User1) =>
    LET now == StoredRows[op.form]
        was == op.before[op.form]
    IN /\ editId[op.form] = NoId
       /\ \A b \in Buckets \ {op.form} : StoredRows[b] = op.before[b]
       /\ IF op.fields.editId # NoId
          THEN /\ Len(now) = Len(was)
               /\ \A i \in 1..Len(now) :
                    now[i].id = was[i].id /\ (now[i].id # op.fields.editId => now[i] = was[i])
          ELSE /\ Len(now) = Len(was) + 1
               /\ \A i \in 1..Len(was) : now[i] = was[i]

(***************************************************************************)
(* The application: sign-in and sign-out, the four subscriptions, the      *)
(* forms, the row deletions, export, import and the clear button           *)
(***************************************************************************)
\* Bound of the model: the largest number of 3-second timers pending.
MaxTimers == 2

\* onAuthStateChanged delivers a user: the effect subscribes to the four
\* collections; their rows arrive with the callbacks.
SignIn ==
  /\ user = NoUser
  /\ user' = User1
  /\ UNCHANGED <<db, nextId, data, report, file, trip, op, callVars, uiVars>>

\* Mutant of SignOut: the snapshot in memory is kept.
SignOut_KeepsData ==
  /\ user = User1
  /\ user' = NoUser
  /\ UNCHANGED <<db, nextId, data, report, file, trip, op, callVars, uiVars>>

\* onAuthStateChanged delivers null: the cleanup of the effect unsubscribes
\* and the effect sets data to four empty collections.
SignOut ==
  /\ user = User1
  /\ user' = NoUser
  /\ data' = emptyData
  /\ UNCHANGED <<db, nextId, report, file, trip, op, callVars, uiVars>>

\* clearAll() over the rows in memory.
clearAll(store, rows) ==
  deleteRows(deleteRows(deleteRows(deleteRows(store,
    "purchases", rows.purchases), "sales", rows.sales),
    "expenses", rows.expenses), "payments", rows.payments)

\* The record of a click on the clear button: whether confirmClear was set,
\* who was signed in, the rows in memory and the records kept before it.
Clicked ==
  [kind |-> "clear", armed |-> confirmClear, user |-> user, rows |-> data,
   before |-> SnapshotOf(db), n |-> SubmitsOf(op)]

\* Mutant of ClickClear: the first click clears.
ClickClear_OneStep ==
  /\ confirmClear' = FALSE
  /\ timers' = timers
  /\ db' = IF user = NoUser THEN db ELSE clearAll(db, data)
  /\ trip' = IF user = NoUser THEN trip
             ELSE [trip EXCEPT !.stage = IF @ = "exported" THEN "exported" ELSE "none"]
  /\ op' = Clicked
  /\ UNCHANGED <<nextId, data, report, file, user, callVars, editId>>

\* onClick of the clear button.
ClickClear ==
  /\ IF ~confirmClear
     THEN /\ timers < MaxTimers
          /\ confirmClear' = TRUE
          /\ timers' = timers + 1
          /\ UNCHANGED <<db, trip>>
     ELSE /\ confirmClear' = FALSE
          /\ timers' = timers
          /\ db' = IF user = NoUser THEN db ELSE clearAll(db, data)
          /\ trip' = IF user = NoUser THEN trip
                     ELSE [trip EXCEPT !.stage = IF @ = "exported" THEN "exported" ELSE "none"]
  /\ op' = Clicked
  /\ UNCHANGED <<nextId, data, report, file, user, callVars, editId>>

\* setTimeout(() => setConfirmClear(false), 3000) fires.
ClearTimer ==
  /\ timers > 0
  /\ timers' = timers - 1
  /\ confirmClear' = FALSE
  /\ op' = [kind |-> "timer", n |-> SubmitsOf(op)]
  /\ UNCHANGED <<db, nextId, data, report, file, trip, user, callVars, editId>>

\* Valid contents of the four forms.
AppPurchase ==
  FormFields({Date1}, {NoId}, {Blank}, {""}, {Text2}, {Text3}, {Blank}, EditIds("purchases"))
AppSale ==
  FormFields({Date1}, {1}, {Ali}, {""}, {Text2}, {Text3}, {Blank}, EditIds("sales"))
AppExpense ==
  FormFields({Date1}, {1}, {Blank}, {Cargo}, {Blank}, {Blank}, {Text2}, EditIds("expenses"))
AppPayment ==
  FormFields({Date1}, {NoId}, {Ali}, {""}, {Blank}, {Blank}, {Text2}, EditIds("payments"))

\* A backup file of an earlier session: three purchases.
Backup ==
  LET p == SnapshotOf(FormStore).purchases
  IN JSONStringify([emptyData EXCEPT !.purchases = p \o p \o p])

\* The program starts signed out with nothing in memory and an empty store;
\* the user has a backup file to import.
InitApp ==
  /\ db = emptyData
  /\ data = emptyData
  /\ user = NoUser
  /\ nextId = 0
  /\ report = NoReport
  /\ file = Backup
  /\ trip = NoTrip
  /\ op = NoOp
  /\ confirmClear = FALSE
  /\ timers = 0
  /\ editId = NoEdit
  /\ input = NoInput
  /\ output = NoOutput

NextApp ==
  \/ SignIn
  \/ SignOut
  \/ \E name \in Buckets : user = User1 /\ OnSnapshot(name)
  \/ SubmitsOf(op) < MaxSubmits /\ \E f \in AppPurchase : PurchasesSave(f)
  \/ SubmitsOf(op) < MaxSubmits /\ \E f \in AppSale : SalesSave(f)
  \/ SubmitsOf(op) < MaxSubmits /\ \E f \in AppExpense : ExpensesSave(f)
  \/ SubmitsOf(op) < MaxSubmits /\ \E f \in AppPayment : PaymentsSave(f)
  \/ \E name \in Buckets : Remove(name)
  \/ HandleImport
  \/ ClearAll

SpecApp == InitApp /\ [][NextApp]_vars

\* A form has been submitted with valid contents while nobody was signed in.
SavedSignedOut ==
  /\ Submission
  /\ user = NoUser
  /\ ~RequiredBlank
  /\ ~op.accepted

InitSession ==
  /\ db \in {emptyData, FormStore}
  /\ data = emptyData
  /\ user = NoUser
  /\ nextId = 0
  /\ report = NoReport
  /\ file = NoFile
  /\ trip = NoTrip
  /\ op = NoOp
  /\ confirmClear = FALSE
  /\ timers = 0
  /\ editId = NoEdit
  /\ input = NoInput
  /\ output = NoOutput

NextSession ==
  \/ SignIn
  \/ SignOut
  \/ \E name \in Buckets : user = User1 /\ OnSnapshot(name)
  \/ SubmitsOf(op) < MaxSubmits /\ \E f \in AppPurchase : PurchasesSave(f)
  \/ Remove("purchases")
  \/ Reports

SpecSession == InitSession /\ [][NextSession]_vars

\* C26: a step that changes the snapshot in memory while the user stays
\* signed in replaces one collection by the rows of that collection in the
\* store and leaves the other three as they were, so every collection in
\* memory is empty (nothing delivered yet) or what was last delivered for it.
C26_OwnCollectionOnly ==
  [][(user = User1 /\ user' = User1 /\ data' # data) =>
       \E name \in Buckets :
         /\ data'[name] = RowsOf(db[name])
         /\ \A other \in Buckets \ {name} : data'[other] = data[other]]_vars

\* The rows of the purchases and of the payments have been delivered, those
\* of the sales and of the expenses not yet.
C26_Witness ==
  /\ user = User1
  /\ data.purchases = RowsOf(db.purchases) /\ data.purchases # <<>>
  /\ data.payments = RowsOf(db.payments) /\ data.payments # <<>>
  /\ data.sales = <<>> /\ db.sales # <<>>
  /\ data.expenses = <<>> /\ db.expenses # <<>>

ClearStore ==
  [emptyData EXCEPT !.purchases = FormStore.purchases, !.sales = FormStore.sales]
InitClear ==
  /\ db \in {emptyData, ClearStore}
  /\ data \in {emptyData, SnapshotOf(db)}
  /\ user = User1
  /\ nextId = 0
  /\ report = NoReport
  /\ file = NoFile
  /\ trip = NoTrip
  /\ op = NoOp
  /\ confirmClear = FALSE
  /\ timers = 0
  /\ editId = NoEdit
  /\ input = NoInput
  /\ output = NoOutput

NextClear ==
  \/ ClickClear
  \/ ClearTimer
  \/ \E name \in Buckets : OnSnapshot(name)
  \/ SubmitsOf(op) < MaxSubmits /\ \E f \in AppPurchase : PurchasesSave(f)
  \/ Remove("purchases")

SpecClear == InitClear /\ [][NextClear]_vars

\* The ids of the rows of a collection.
IdsIn(rows) == {rows[i].id : i \in 1..Len(rows)}

\* C25: after a click on the clear button made while confirmClear was false,
\* confirmClear is true, a timer is pending and every record kept before the
\* click is still kept; after a click made while confirmClear was true,
\* confirmClear is false and the rows that were in memory are deleted.
C25_TwoStepClear ==
  op.kind = "clear" =>
    IF op.armed
    THEN /\ ~confirmClear
         /\ \A b \in Buckets : IdsIn(op.rows[b]) \cap IdsIn(SnapshotOf(db)[b]) = {}
    ELSE /\ confirmClear
         /\ timers >= 1
         /\ SnapshotOf(db) = op.before

\* The second click has deleted the records that the first click left.
C25_Witness ==
  /\ op.kind = "clear"
  /\ op.armed
  /\ op.before.purchases # <<>>
  /\ op.rows = op.before
  /\ db = emptyData

====
